---------------------------- MODULE Spec2Model ----------------------------
(***************************************************************************)
(* Model of the betterbilling invoice builder (src/invoice_create.py):     *)
(* the text wrapper, the two table renderers, the document assembler       *)
(* Invoice.generate_pdf, and the invoice data handled by the entry wizard. *)
(*                                                                         *)
(* Lengths are integers: one millimetre is MM units, chosen so that the    *)
(* width fpdf measures for a string in a core font,                        *)
(*     sum(cw[c]) / 1000 * font_size_pt / 72 * 25.4  mm,                   *)
(* is the integer sum(cw[c]) * font_size_pt * 127.  Arithmetic is exact    *)
(* (the rounding of Python floats is not modelled).  A string is a         *)
(* sequence of one-character strings.                                      *)
(***************************************************************************)
EXTENDS Integers, Sequences, FiniteSets, TLC

VARIABLES
  \* --- the text wrapper applied to an input (SpecWrap) ---
  w_pc,        \* "input" -> "wrapped" -> "rewrapped"
  w_text,      \* the text argument
  w_max,       \* the max_w_mm argument
  w_pt,        \* the font size of pdf while wrapping
  w_lines,     \* wrap_text_lines(pdf, text, max_w_mm)
  w_relines    \* wrap_text_lines of the lines joined with single spaces

wrapVars == <<w_pc, w_text, w_max, w_pt, w_lines, w_relines>>

VARIABLES
  \* --- Invoice.generate_pdf on one invoice (Spec) ---
  pc,            \* the statement generate_pdf executes next
  n_services,    \* len(self.services)
  n_costs,       \* len(self.costs)
  letterhead,    \* settings letterhead.top_margin_in, in 1/100 inch
  font_size_pt,  \* pdf.font_size_pt (chosen_pt)
  page_no,       \* pdf.page_no()
  y,             \* pdf.get_y()
  fill,          \* fill of the table renderer that is running
  svc_i,         \* rows of the services table finished so far
  desc,          \* description of the row being drawn
  desc_lines,    \* wrap_text_lines of that description
  start_idx,     \* start_idx of the chunk loop
  cost_j,        \* rows of the costs table drawn so far
  \* history, read by the properties only
  drawn,         \* the elements drawn by the last statement
  page_first,    \* per page, the first element drawn on it
  row_drawn,     \* the description lines drawn for the current row, in order
  passes,        \* passes of the chunk loop for the current row
  pass_pages,    \* pages started by the last pass of the chunk loop
  pass_fit       \* the minimum row height fitted when the last pass drew

pdfVars == <<pc, n_services, n_costs, letterhead, font_size_pt, page_no, y, fill,
             svc_i, desc, desc_lines, start_idx, cost_j,
             drawn, page_first, row_drawn, passes, pass_pages, pass_fit>>

VARIABLES
  \* --- the entry wizard, InvoiceWizard (SpecWizard) ---
  stack,                  \* the page shown: "meta", "services", "costs", "review"
  invoice,                \* self.invoice
  s_hours,                \* value of the hours spin box of the service form
  hours_dirty,            \* self._hours_dirty
  s_table,                \* rows of the services table widget
  c_table,                \* rows of the costs table widget
  totals_lbl,             \* the totals last written by update_totals_labels
  require_explicit_zero   \* self.require_explicit_zero

wizVars == <<stack, invoice, s_hours, hours_dirty, s_table, c_table, totals_lbl,
             require_explicit_zero>>

VARIABLES
  \* --- an Invoice used through its own methods (SpecInvoice) ---
  svc_rows     \* the rows generate_pdf last built for the services table

VARIABLES
  \* --- paginate_table drawing the cells of one row (SpecTable) ---
  t_pc,        \* "idle", "row" (a row is to be drawn) or "drawn"
  t_base,      \* base_size = pdf.font_size_pt
  t_row,       \* the texts of the cells of the row
  t_sizes,     \* per cell, the font size it was drawn at
  t_font       \* the font size of pdf

docVars == <<svc_rows, t_pc, t_base, t_row, t_sizes, t_font>>

VARIABLES
  \* --- InvoiceWizard.export_pdf writing into the export directory (SpecExport) ---
  e_pc,          \* "review", "generate", "raised", "written" or "closed"
  client_name,   \* self.invoice.client_name
  invoice_date,  \* self.invoice.invoice_date, MM/DD/YYYY
  template,      \* settings pdf.file_naming_template
  files,         \* the export directory: file name -> "old", "pdf" or "partial"
  outfile,       \* the path export_pdf passes to generate_pdf
  dialog,        \* the message box export_pdf showed last
  written,       \* the paths pdf.output has created so far
  thousand_separators,  \* settings pdf.thousand_separators
  doc_money      \* the money texts of the document generate_pdf wrote last

expVars == <<e_pc, client_name, invoice_date, template, files, outfile, dialog, written,
             thousand_separators, doc_money>>

VARIABLES
  \* --- the settings module and its file (SpecSettings) ---
  disk,        \* the settings file: absent, not JSON, or a JSON value
  cache,       \* settings._cache
  tmp,         \* the temporary file of save_settings: "none", "empty", "partial", "whole"
  s_pc,        \* "idle", or the statement save_settings executes next
  s_call,      \* the call of the settings module made last
  s_data,      \* data of save_settings
  s_exc,       \* an exception is passing through the finally block of save_settings
  s_ret,       \* how the last call ended, and the value it returned
  s_prev,      \* the settings file when save_settings was entered
  n_sets,      \* calls of set_ so far
  s_before,    \* what get(path) returned when set_(path, value) was called last
  defaults,    \* settings.DEFAULTS as it stands in the running process
  shared       \* the keys k for which _cache[k] is the very object DEFAULTS[k]

aliasVars == <<defaults, shared>>

setVars == <<disk, cache, tmp, s_pc, s_call, s_data, s_exc, s_ret, s_prev, n_sets, s_before,
            aliasVars>>

ioVars == <<expVars, setVars>>

vars == <<wrapVars, pdfVars, wizVars, docVars, ioVars>>

notPdfVars == <<wrapVars, wizVars, docVars, ioVars>>

notWrapVars == <<pdfVars, wizVars, docVars, ioVars>>

notWizVars == <<wrapVars, pdfVars, docVars, ioVars>>

\* ------------------------------------------------------------------------
\* Bounds of the model
\* ------------------------------------------------------------------------
MaxTextLen == 5

MaxServices == 3

MaxCosts == 30

MaxSvcItems == 2

MaxCostItems == 1

\* ------------------------------------------------------------------------
\* Units and module constants (src/invoice_create.py:15-23)
\* ------------------------------------------------------------------------
MM == 360000

MAX_FONT_PT == 14

MIN_FONT_PT == 10

LEFT_MARGIN_MM == 15 * MM

TOP_MARGIN_MM == 20 * MM

BOTTOM_MARGIN_MM == 5 * MM

ROW_PAD_MM == (8 * MM) \div 10

DESC_INNER_PAD_X == 1 * MM

\* the "tiny safety" 0.5 mm of too_wide
WRAP_SAFETY == MM \div 2

\* ------------------------------------------------------------------------
\* Strings
\* ------------------------------------------------------------------------
Chars == {"i", "W", " ", "-"}

\* \s of the regular expression and of str.strip()
IsSpace(c) == c = " "

\* the soft breakpoints [-,/;:] of the regular expression
IsPunct(c) == c \in {"-", ",", "/", ";", ":"}

\* Helvetica character widths in 1/1000 em (the core font metrics fpdf uses)
cw(c) ==
  CASE c = "i" -> 222
    [] c = "W" -> 944
    [] c = " " -> 278
    [] c = "-" -> 333
    [] c \in {",", "."} -> 278
    [] OTHER   -> 556

\* the sum of the character widths of s, character by character
RECURSIVE SumOver(_, _)
SumOver(cs, s) ==
  IF cs = {} THEN 0
  ELSE LET c == CHOOSE x \in cs : TRUE
       IN  cw(c) * Cardinality({i \in 1..Len(s) : s[i] = c}) + SumOver(cs \ {c}, s)

SumCw(s) == SumOver({s[i] : i \in 1..Len(s)}, s)

\* pdf.get_string_width(s) at font size pt, in model units
get_string_width(s, pt) == SumCw(s) * pt * 127

RECURSIVE rstrip(_)
rstrip(s) ==
  IF s # <<>> /\ IsSpace(s[Len(s)]) THEN rstrip(SubSeq(s, 1, Len(s) - 1)) ELSE s

RECURSIVE lstrip(_)
lstrip(s) == IF s # <<>> /\ IsSpace(Head(s)) THEN lstrip(Tail(s)) ELSE s

\* class of a character for re.split: a whitespace run, one punctuation
\* character, or a run of other characters
CharClass(c) == IF IsSpace(c) THEN "space" ELSE IF IsPunct(c) THEN "punct" ELSE "word"

\* the last index of the token that starts at index i: i itself for a
\* punctuation character, else the end of the run of characters of one class
TokenEnd(text, i) ==
  IF CharClass(text[i]) = "punct" THEN i
  ELSE CHOOSE j \in i..Len(text) :
         /\ j = Len(text) \/ CharClass(text[j + 1]) # CharClass(text[i])
         /\ \A k \in i..j : CharClass(text[k]) = CharClass(text[i])

\* re.split(r'(\s+|[-,/;:])', text) with the empty strings dropped: the
\* maximal whitespace runs, the single punctuation characters and the maximal
\* runs of other characters, in order
RECURSIVE Tokenize(_, _, _)
Tokenize(text, i, acc) ==
  IF i > Len(text) THEN acc
  ELSE LET j == TokenEnd(text, i)
       IN  Tokenize(text, j + 1, Append(acc, SubSeq(text, i, j)))

re_split(text) == Tokenize(text, 1, <<>>)

too_wide_neg(s, max_w_mm, pt) == get_string_width(s, pt) > max_w_mm + WRAP_SAFETY

too_wide_slip(s, max_w_mm, pt) == get_string_width(s, pt) > max_w_mm - 10 * WRAP_SAFETY

\* too_wide of wrap_text_lines
too_wide(s, max_w_mm, pt) == get_string_width(s, pt) > max_w_mm - WRAP_SAFETY

\* the inner loop of the emergency split while the buffer still fits:
\* characters from index i on are appended to buf until one makes it too
\* wide; i is then the index of that character (Len(tok) + 1 if none does)
RECURSIVE EmergencyFill(_, _, _, _, _)
EmergencyFill(tok, i, buf, max_w_mm, pt) ==
  IF i > Len(tok) THEN [i |-> i, buf |-> buf]
  ELSE IF too_wide(Append(buf, tok[i]), max_w_mm, pt) THEN [i |-> i, buf |-> buf]
  ELSE EmergencyFill(tok, i + 1, Append(buf, tok[i]), max_w_mm, pt)

\* the emergency split of one token, character by character: when a
\* character makes buf too wide it is popped, buf (if not empty) becomes a
\* line and the popped character starts the next buf
RECURSIVE EmergencyLoop(_, _, _, _, _, _)
EmergencyLoop(tok, i, lines, buf, max_w_mm, pt) ==
  LET f == EmergencyFill(tok, i, buf, max_w_mm, pt)
  IN  IF f.i > Len(tok) THEN [lines |-> lines, cur |-> f.buf]
      ELSE EmergencyLoop(tok, f.i + 1,
                         IF f.buf # <<>> THEN Append(lines, f.buf) ELSE lines,
                         <<tok[f.i]>>, max_w_mm, pt)

RECURSIVE EmergencyDropLoop(_, _, _, _, _, _)
EmergencyDropLoop(tok, i, lines, buf, max_w_mm, pt) ==
  LET f == EmergencyFill(tok, i, buf, max_w_mm, pt)
  IN  IF f.i > Len(tok) THEN [lines |-> lines, cur |-> f.buf]
      ELSE EmergencyDropLoop(tok, f.i + 1,
                             IF f.buf # <<>> THEN Append(lines, f.buf) ELSE lines,
                             <<>>, max_w_mm, pt)

emergency_split_drop(tok, lines, max_w_mm, pt) ==
  EmergencyDropLoop(tok, 1, lines, <<>>, max_w_mm, pt)

emergency_split(tok, lines, max_w_mm, pt) ==
  EmergencyLoop(tok, 1, lines, <<>>, max_w_mm, pt)

break_before_keep(tok) == tok

\* the start of the new line after a break before tok
break_before(tok) == lstrip(tok)

\* a token loop that splits every token that does not fit on the current
\* line, also one that would fit on a line of its own
RECURSIVE WrapLoop_split(_, _, _, _, _, _)
WrapLoop_split(tokens, k, lines, cur, max_w_mm, pt) ==
  IF k > Len(tokens) THEN [lines |-> lines, cur |-> cur]
  ELSE LET tok       == tokens[k]
           candidate == cur \o tok
       IN  IF ~too_wide(candidate, max_w_mm, pt)
           THEN WrapLoop_split(tokens, k + 1, lines, candidate, max_w_mm, pt)
           ELSE LET r == EmergencyLoop(tok, 1, lines, cur, max_w_mm, pt)
                IN  WrapLoop_split(tokens, k + 1, r.lines, r.cur, max_w_mm, pt)

\* the body of the token loop
RECURSIVE WrapLoop(_, _, _, _, _, _)
WrapLoop(tokens, k, lines, cur, max_w_mm, pt) ==
  IF k > Len(tokens) THEN [lines |-> lines, cur |-> cur]
  ELSE LET tok       == tokens[k]
           candidate == cur \o tok
       IN  IF ~too_wide(candidate, max_w_mm, pt)
           THEN WrapLoop(tokens, k + 1, lines, candidate, max_w_mm, pt)
           ELSE IF too_wide(tok, max_w_mm, pt)
           THEN LET flushed == IF cur # <<>> THEN Append(lines, rstrip(cur)) ELSE lines
                    r       == emergency_split(tok, flushed, max_w_mm, pt)
                IN  WrapLoop(tokens, k + 1, r.lines, r.cur, max_w_mm, pt)
           ELSE WrapLoop(tokens, k + 1,
                         IF cur # <<>> THEN Append(lines, rstrip(cur)) ELSE lines,
                         break_before(tok), max_w_mm, pt)

wrap_text_lines_raw(text, max_w_mm, pt) ==
  LET r == WrapLoop(re_split(text), 1, <<>>, <<>>, max_w_mm, pt)
  IN  IF r.cur # <<>> THEN Append(r.lines, rstrip(r.cur)) ELSE r.lines

\* wrap_text_lines(pdf, text, max_w_mm) at the font size pt
wrap_text_lines(text, max_w_mm, pt) ==
  IF text = <<>> THEN << <<>> >>
  ELSE LET r     == WrapLoop(re_split(text), 1, <<>>, <<>>, max_w_mm, pt)
           lines == IF r.cur # <<>> THEN Append(r.lines, rstrip(r.cur)) ELSE r.lines
       IN  IF lines = <<>> THEN << <<>> >> ELSE lines

\* ------------------------------------------------------------------------
\* Geometry
\* ------------------------------------------------------------------------
\* FPDF(format=PAGE_FORMAT).h: the height of a Letter page, 279.4 mm
PAGE_H == (2794 * MM) \div 10

\* mm_from_inches, for a length given in 1/100 inch
mm_from_inches(in100) == in100 * ((254 * MM) \div 1000)

\* a page top that leaves the letterhead band free on every page
page_top_y_band(page, lh_in100) == mm_from_inches(lh_in100)

\* a page top that ignores the letterhead
page_top_y_flat(page, lh_in100) == TOP_MARGIN_MM

\* page_top_y(pdf): below the letterhead on page 1, the top margin after it
page_top_y(page, lh_in100) ==
  IF page = 1 THEN mm_from_inches(lh_in100) ELSE TOP_MARGIN_MM

\* pdf.ln_height_mm = chosen_pt * 0.35
ln_height_mm(pt) == (pt * 35 * MM) \div 100

\* usable_bottom = pdf.h - BOTTOM_MARGIN_MM
usable_bottom == PAGE_H - BOTTOM_MARGIN_MM

\* svc_col_w = [25, 80, 25, 30, 30]
svc_col_w == <<25 * MM, 80 * MM, 25 * MM, 30 * MM, 30 * MM>>

\* cost_col_w = [80, 30, 30, 30]
cost_col_w == <<80 * MM, 30 * MM, 30 * MM, 30 * MM>>

\* a font choice that takes the smallest fitting size
chosen_pt_smallest(n_svc, n_cost, lh_in100) ==
  LET total_rows == (n_svc + 1) + (n_cost + 1) + 6
      fits == {pt \in MIN_FONT_PT..MAX_FONT_PT :
                 total_rows * ln_height_mm(pt)
                   < PAGE_H - mm_from_inches(lh_in100) - TOP_MARGIN_MM}
  IN  IF fits = {} THEN MIN_FONT_PT
      ELSE CHOOSE pt \in fits : \A q \in fits : pt <= q

\* the dynamic font of generate_pdf: the largest size whose rough row count
\* fits below the letterhead, MIN_FONT_PT if none does
chosen_pt(n_svc, n_cost, lh_in100) ==
  LET svc_count  == n_svc + 1
      cost_count == n_cost + 1
      total_rows == svc_count + cost_count + 6
      fits == {pt \in MIN_FONT_PT..MAX_FONT_PT :
                 total_rows * ln_height_mm(pt)
                   < PAGE_H - mm_from_inches(lh_in100) - TOP_MARGIN_MM}
  IN  IF fits = {} THEN MIN_FONT_PT
      ELSE CHOOSE pt \in fits : \A q \in fits : q <= pt

\* ------------------------------------------------------------------------
\* The invoices rendered: the descriptions a service row may carry
\* ------------------------------------------------------------------------
Rep(s, n) == [k \in 1..(n * Len(s)) |-> s[((k - 1) % Len(s)) + 1]]

\* one line at every font size
DescShort == <<"W", "i">>

\* nine words, wrapped at the spaces into three lines
DescWords == Rep(<<"W", "W", "W", "W", "W", " ">>, 8) \o <<"W", "W", "i", "-", "W">>

\* two unbroken tokens of 600 characters, emergency-split into more lines
\* than a page holds
DescLong == Rep(<<"W">>, 600) \o <<" ">> \o Rep(<<"W">>, 600)

Descs == <<DescShort, DescWords, DescLong>>

LetterheadMargins == {250, 500}

\* wrap_text_lines(pdf, desc_txt, desc_w - 2 * DESC_INNER_PAD_X) for each
\* description and font size
WrappedDesc ==
  [pt \in MIN_FONT_PT..MAX_FONT_PT |->
     [d \in DOMAIN Descs |->
        wrap_text_lines(Descs[d], svc_col_w[2] - 2 * DESC_INNER_PAD_X, pt)]]

\* ------------------------------------------------------------------------
\* Invoice.generate_pdf, statement by statement
\* ------------------------------------------------------------------------
\* the cells of an element whose cells are not looked at
NoCells == [boxes |-> <<>>, texts |-> <<>>]

Elem(kind, page, top, height, f) ==
  [kind |-> kind, page |-> page, top |-> top, bottom |-> top + height, fill |-> f,
   cells |-> NoCells]

\* the first element of each page, given the elements just drawn
NoteFirst(pf, els) ==
  LET pages == {els[k].page : k \in 1..Len(els)}
      last  == IF pages = {} THEN Len(pf)
               ELSE CHOOSE m \in pages \cup {Len(pf)} :
                      \A q \in pages \cup {Len(pf)} : q <= m
      FirstOn(pg) == els[CHOOSE k \in 1..Len(els) :
                           /\ els[k].page = pg
                           /\ \A j \in 1..(k - 1) : els[j].page # pg]
  IN  [pg \in 1..last |-> IF pg <= Len(pf) THEN pf[pg] ELSE FirstOn(pg)]

PdfIdle ==
  /\ pc = "idle"
  /\ n_services = 0 /\ n_costs = 0 /\ letterhead = 250
  /\ font_size_pt = MIN_FONT_PT /\ page_no = 0 /\ y = 0 /\ fill = TRUE
  /\ svc_i = 0 /\ desc = 0 /\ desc_lines = <<>> /\ start_idx = 0 /\ cost_j = 0
  /\ drawn = <<>> /\ page_first = <<>> /\ row_drawn = <<>>
  /\ passes = 0 /\ pass_pages = 0 /\ pass_fit = TRUE

WrapIdle ==
  /\ w_pc = "idle" /\ w_text = <<>> /\ w_max = 0 /\ w_pt = MIN_FONT_PT
  /\ w_lines = <<>> /\ w_relines = <<>>

\* self.invoice = None
None == [exists |-> FALSE, default_rate |-> 0, services |-> <<>>, costs |-> <<>>]

WizIdle ==
  /\ stack = "idle"
  /\ invoice = None
  /\ s_hours = 0
  /\ hours_dirty = FALSE
  /\ s_table = <<>> /\ c_table = <<>>
  /\ totals_lbl = <<>>
  /\ require_explicit_zero = TRUE

DocIdle ==
  /\ svc_rows = <<>>
  /\ t_pc = "idle" /\ t_base = MIN_FONT_PT /\ t_row = <<>> /\ t_sizes = <<>>
  /\ t_font = <<MIN_FONT_PT, 1>>

ExpIdle ==
  /\ e_pc = "idle"
  /\ client_name = <<>> /\ invoice_date = <<>> /\ template = <<>>
  /\ files = <<>> /\ outfile = <<>> /\ dialog = "" /\ written = {}
  /\ thousand_separators = TRUE /\ doc_money = <<>>

SetQuiet ==
  /\ disk = <<>> /\ tmp = "none" /\ s_pc = "off" /\ s_call = <<>>
  /\ s_data = <<>> /\ s_exc = FALSE /\ s_ret = <<>> /\ s_prev = <<>> /\ n_sets = 0
  /\ s_before = <<>> /\ defaults = <<>> /\ shared = {}

SetIdle == SetQuiet /\ cache = <<>>

IoIdle == ExpIdle /\ SetIdle

\* the invoice and the setting generate_pdf is called with
InitPdf ==
  /\ pc = "start"
  /\ n_services \in 0..MaxServices
  /\ n_costs \in 0..MaxCosts
  /\ letterhead \in LetterheadMargins
  /\ font_size_pt = MIN_FONT_PT /\ page_no = 0 /\ y = 0 /\ fill = TRUE
  /\ svc_i = 0 /\ desc = 0 /\ desc_lines = <<>> /\ start_idx = 0 /\ cost_j = 0
  /\ drawn = <<>> /\ page_first = <<>> /\ row_drawn = <<>>
  /\ passes = 0 /\ pass_pages = 0 /\ pass_fit = TRUE

rowVars == <<svc_i, desc, desc_lines, start_idx, cost_j, row_drawn, passes,
             pass_pages, pass_fit>>

inputVars == <<n_services, n_costs, letterhead>>

\* font choice, first page, letterhead margin and heading
Heading ==
  /\ pc = "start"
  /\ LET pt  == chosen_pt(n_services, n_costs, letterhead)
         lh  == ln_height_mm(pt)
         top == page_top_y(1, letterhead)
         els == << Elem("title", 1, top, lh * 2, FALSE),
                   Elem("client", 1, top + lh * 2 + lh \div 2, lh, FALSE),
                   Elem("date", 1, top + lh * 2 + lh \div 2 + lh, lh, FALSE) >>
     IN  /\ font_size_pt' = pt
         /\ page_no' = 1
         /\ y' = top + lh * 2 + lh \div 2 + lh + lh + lh
         /\ drawn' = els
         /\ page_first' = NoteFirst(page_first, els)
  /\ pc' = "svc_header"
  /\ UNCHANGED <<notPdfVars, inputVars, fill, rowVars>>

\* _draw_header: the header row at the cursor, then pdf.ln(row_h)
draw_header(kind, page, top, pt) == Elem(kind, page, top, ln_height_mm(pt), TRUE)

\* paginate_services_wrapped: the initial header
ServicesHeader ==
  /\ pc = "svc_header"
  /\ LET els == << draw_header("svc_header", page_no, y, font_size_pt) >>
     IN  /\ drawn' = els
         /\ page_first' = NoteFirst(page_first, els)
  /\ y' = y + ln_height_mm(font_size_pt)
  /\ fill' = TRUE
  /\ pc' = "svc_row"
  /\ UNCHANGED <<notPdfVars, inputVars, font_size_pt, page_no, rowVars>>

\* the head of the row loop: the next row's description is wrapped
ServicesRowBegin ==
  /\ pc = "svc_row"
  /\ svc_i < n_services
  /\ \E d \in DOMAIN Descs :
       /\ desc' = d
       /\ desc_lines' = WrappedDesc[font_size_pt][d]
  /\ start_idx' = 0
  /\ row_drawn' = <<>>
  /\ passes' = 0
  /\ pass_pages' = 0
  /\ pass_fit' = TRUE
  /\ drawn' = <<>>
  /\ pc' = "svc_chunk"
  /\ UNCHANGED <<notPdfVars, inputVars, font_size_pt, page_no, y, fill, svc_i, cost_j, page_first>>

Max(a, b) == IF a >= b THEN a ELSE b

Min(a, b) == IF a <= b THEN a ELSE b

\* a line count that leaves the padding out
max_lines_here_nopad(available_h, row_h) ==
  Max(1, available_h \div row_h)

\* the number of lines of the chunk drawn in this pass
max_lines_here(available_h, row_h) ==
  Max(1, (available_h - 2 * ROW_PAD_MM) \div row_h)

this_lines_overlap(lines, start, end_idx) == SubSeq(lines, Max(1, start), end_idx)

\* this_lines = desc_lines[start_idx:end_idx]
this_lines(lines, start, end_idx) == SubSeq(lines, start + 1, end_idx)

next_start_idx_stuck(end_idx) == end_idx - 1

\* start_idx = end_idx, at the end of the pass
next_start_idx(end_idx) == end_idx

\* date_txt, hrs_txt, rate_txt, amt_txt of row i of the services table: one
\* text for each row and column
RowTexts(i) ==
  [date |-> <<"date", i>>, hrs |-> <<"hrs", i>>, rate |-> <<"rate", i>>,
   amt |-> <<"amt", i>>]

\* the left edge of column c: x = LEFT_MARGIN_MM; x += col_widths[...]
RECURSIVE col_x(_, _)
col_x(col_widths, c) ==
  IF c = 1 THEN LEFT_MARGIN_MM ELSE col_x(col_widths, c - 1) + col_widths[c - 1]

\* pdf.cell(w, h, "", border=1, fill=fill) at (x, y)
_draw_cell_box(x, y0, w, h, f) ==
  [x |-> x, y |-> y0, w |-> w, h |-> h, border |-> 1, fill |-> f]

\* a single-line text set at the top padding of its box
_text_at_top(x, y0, w, h, text, align, v_center, ln_h) ==
  [x |-> x, y |-> y0 + ROW_PAD_MM, w |-> w, h |-> ln_h, text |-> text,
   align |-> align, border |-> 0]

\* _text_at: a single-line text in the box (x, y, w, h)
_text_at(x, y0, w, h, text, align, v_center, ln_h) ==
  LET baseline_y == IF v_center THEN y0 + (h - ln_h) \div 2 ELSE y0 + ROW_PAD_MM
  IN  [x |-> x, y |-> baseline_y, w |-> w, h |-> ln_h, text |-> text,
       align |-> align, border |-> 0]

\* the five boxes and the four single-line texts of one chunk of row i
svc_cells(i, y0, this_row_h, f, ln_h) ==
  LET w == svc_col_w
      t == RowTexts(i)
  IN  [boxes |-> [c \in 1..5 |-> _draw_cell_box(col_x(w, c), y0, w[c], this_row_h, f)],
       texts |-> << _text_at(col_x(w, 1), y0, w[1], this_row_h, t.date, "L", TRUE, ln_h),
                    _text_at(col_x(w, 3), y0, w[3], this_row_h, t.hrs, "R", TRUE, ln_h),
                    _text_at(col_x(w, 4), y0, w[4], this_row_h, t.rate, "R", TRUE, ln_h),
                    _text_at(col_x(w, 5), y0, w[5], this_row_h, t.amt, "R", TRUE, ln_h) >>]

\* one pass of the chunk loop of paginate_services_wrapped
ServicesChunk ==
  /\ pc = "svc_chunk"
  /\ start_idx < Len(desc_lines)
  /\ LET row_h      == ln_height_mm(font_size_pt)
         min_row_h  == row_h + 2 * ROW_PAD_MM
         break      == usable_bottom - y < min_row_h
         page       == IF break THEN page_no + 1 ELSE page_no
         head       == IF break
                       THEN << draw_header("svc_header", page,
                                           page_top_y(page, letterhead), font_size_pt) >>
                       ELSE << >>
         y0         == IF break THEN page_top_y(page, letterhead) + row_h ELSE y
         available  == usable_bottom - y0
         end_idx    == Min(Len(desc_lines), start_idx + max_lines_here(available, row_h))
         chunk      == this_lines(desc_lines, start_idx, end_idx)
         this_row_h == ROW_PAD_MM + row_h * Max(1, Len(chunk)) + ROW_PAD_MM
         cells      == svc_cells(svc_i, y0, this_row_h, fill, row_h)
         els        == head \o << [Elem("svc_chunk", page, y0, this_row_h, fill)
                                     EXCEPT !.cells = cells] >>
     IN  /\ page_no' = page
         /\ y' = y0 + this_row_h
         /\ start_idx' = next_start_idx(end_idx)
         /\ row_drawn' = row_drawn \o chunk
         /\ drawn' = els
         /\ page_first' = NoteFirst(page_first, els)
         /\ passes' = passes + 1
         /\ pass_pages' = page - page_no
         /\ pass_fit' = (available >= min_row_h)
  /\ UNCHANGED <<notPdfVars, inputVars, font_size_pt, fill, svc_i, desc, desc_lines, cost_j, pc>>

\* an end of the chunk loop that leaves the fill as it is
ServicesRowEnd_samefill ==
  /\ pc = "svc_chunk"
  /\ start_idx >= Len(desc_lines)
  /\ svc_i' = svc_i + 1
  /\ drawn' = <<>>
  /\ pc' = "svc_row"
  /\ UNCHANGED <<notPdfVars, inputVars, font_size_pt, page_no, y, fill, desc, desc_lines,
                 start_idx, cost_j, page_first, row_drawn, passes, pass_pages, pass_fit>>

\* the end of the chunk loop: fill = not fill
ServicesRowEnd ==
  /\ pc = "svc_chunk"
  /\ start_idx >= Len(desc_lines)
  /\ fill' = ~fill
  /\ svc_i' = svc_i + 1
  /\ drawn' = <<>>
  /\ pc' = "svc_row"
  /\ UNCHANGED <<notPdfVars, inputVars, font_size_pt, page_no, y, desc, desc_lines, start_idx,
                 cost_j, page_first, row_drawn, passes, pass_pages, pass_fit>>

\* after the services table: half a line, the TOTAL SERVICE FEES row, half a row
TotalServices ==
  /\ pc = "svc_row"
  /\ svc_i >= n_services
  /\ LET lh  == ln_height_mm(font_size_pt)
         top == y + lh \div 2
         els == << Elem("svc_total", page_no, top, lh, FALSE) >>
     IN  /\ y' = top + lh + lh \div 2
         /\ drawn' = els
         /\ page_first' = NoteFirst(page_first, els)
  /\ pc' = "cost_header"
  /\ UNCHANGED <<notPdfVars, inputVars, font_size_pt, page_no, fill, rowVars>>

\* paginate_table: the initial header
CostsHeader ==
  /\ pc = "cost_header"
  /\ LET els == << draw_header("cost_header", page_no, y, font_size_pt) >>
     IN  /\ drawn' = els
         /\ page_first' = NoteFirst(page_first, els)
  /\ y' = y + ln_height_mm(font_size_pt)
  /\ fill' = TRUE
  /\ pc' = "cost_row"
  /\ UNCHANGED <<notPdfVars, inputVars, font_size_pt, page_no, rowVars>>

\* a room check that looks at the cursor only, not at the height needed
ensure_room_late(kind, page, top, needed_h, pt, lh_in100) ==
  IF top > usable_bottom
  THEN [page |-> page + 1,
        y    |-> page_top_y(page + 1, lh_in100) + ln_height_mm(pt),
        els  |-> << draw_header(kind, page + 1, page_top_y(page + 1, lh_in100), pt) >>]
  ELSE [page |-> page, y |-> top, els |-> << >>]

ensure_room_no_header(kind, page, top, needed_h, pt, lh_in100) ==
  IF top + needed_h > usable_bottom
  THEN [page |-> page + 1, y |-> page_top_y(page + 1, lh_in100), els |-> << >>]
  ELSE [page |-> page, y |-> top, els |-> << >>]

\* _ensure_room_or_new_page: a new page, the cursor at its top and the header
\* redrawn when needed_h does not fit above the bottom margin
ensure_room_or_new_page(kind, page, top, needed_h, pt, lh_in100) ==
  IF top + needed_h > usable_bottom
  THEN [page |-> page + 1,
        y    |-> page_top_y(page + 1, lh_in100) + ln_height_mm(pt),
        els  |-> << draw_header(kind, page + 1, page_top_y(page + 1, lh_in100), pt) >>]
  ELSE [page |-> page, y |-> top, els |-> << >>]

\* one row of paginate_table
CostsRow ==
  /\ pc = "cost_row"
  /\ cost_j < n_costs
  /\ LET row_h == ln_height_mm(font_size_pt)
         room  == ensure_room_or_new_page("cost_header", page_no, y, row_h,
                                          font_size_pt, letterhead)
         els   == room.els \o << Elem("cost_row", room.page, room.y, row_h, fill) >>
     IN  /\ page_no' = room.page
         /\ y' = room.y + row_h
         /\ drawn' = els
         /\ page_first' = NoteFirst(page_first, els)
  /\ fill' = ~fill
  /\ cost_j' = cost_j + 1
  /\ UNCHANGED <<notPdfVars, inputVars, font_size_pt, svc_i, desc, desc_lines, start_idx,
                 row_drawn, passes, pass_pages, pass_fit, pc>>

\* after the costs table: half a line, the TOTAL COSTS row, half a row
TotalCosts ==
  /\ pc = "cost_row"
  /\ cost_j >= n_costs
  /\ LET lh  == ln_height_mm(font_size_pt)
         top == y + lh \div 2
         els == << Elem("cost_total", page_no, top, lh, FALSE) >>
     IN  /\ y' = top + lh + lh \div 2
         /\ drawn' = els
         /\ page_first' = NoteFirst(page_first, els)
  /\ pc' = "grand_total"
  /\ UNCHANGED <<notPdfVars, inputVars, font_size_pt, page_no, fill, rowVars>>

\* the boxed grand total, row_h * 1.2 high
GrandTotal ==
  /\ pc = "grand_total"
  /\ LET h   == (ln_height_mm(font_size_pt) * 12) \div 10
         els == << Elem("grand_total", page_no, y, h, FALSE) >>
     IN  /\ y' = y + h
         /\ drawn' = els
         /\ page_first' = NoteFirst(page_first, els)
  /\ pc' = "output"
  /\ UNCHANGED <<notPdfVars, inputVars, font_size_pt, page_no, fill, rowVars>>

\* pdf.output(out)
Output ==
  /\ pc = "output"
  /\ pc' = "done"
  /\ drawn' = <<>>
  /\ UNCHANGED <<notPdfVars, inputVars, font_size_pt, page_no, y, fill, rowVars, page_first>>

Init == InitPdf /\ WrapIdle /\ WizIdle /\ DocIdle /\ IoIdle

Next ==
  \/ Heading
  \/ ServicesHeader
  \/ ServicesRowBegin
  \/ ServicesChunk
  \/ ServicesRowEnd
  \/ TotalServices
  \/ CostsHeader
  \/ CostsRow
  \/ TotalCosts
  \/ GrandTotal
  \/ Output

Spec == Init /\ [][Next]_vars

\* generate_pdf is one call that runs to its end: no statement is skipped forever
SpecFair == Spec /\ WF_vars(Next)

\* ------------------------------------------------------------------------
\* The invoice data: LineItem, CostItem, Invoice
\* Hours and quantities are integers in units of 1/10000, money is in cents,
\* so an amount (hours * rate) is in units of 1/1000000.
\* ------------------------------------------------------------------------
\* one hour, or a quantity of one
Q == 10000

\* the date datetime.now() gives while the wizard runs
Today == 1

\* x rounded to a multiple of step, ties to the even multiple
RoundTo(x, step) ==
  LET q == x \div step
      r == x % step
  IN  IF 2 * r < step THEN q * step
      ELSE IF 2 * r > step THEN (q + 1) * step
      ELSE IF q % 2 = 0 THEN q * step ELSE (q + 1) * step

\* the text of a number, and a text that is no number
NumText(v) == [kind |-> "num", val |-> v]

JunkText == [kind |-> "junk", val |-> 0]

\* float(text)
float(text) == [ok |-> text.kind = "num", val |-> text.val]

\* f"{v:.2f}" of hours or of a quantity or price
fmt2(v, unit) == NumText(RoundTo(v, unit \div 100))

\* the text of a date as format_date ("short", M/D/YY) or format_date_full
\* ("full", MM/DD/YYYY) writes it, and a text parse_user_date rejects
DateText(kind, d) == [kind |-> kind, date |-> d]

BadDate == [kind |-> "bad", date |-> 0]

parse_user_date(text) == [ok |-> text.kind \in {"short", "full"}, date |-> text.date]

format_date(d) == DateText("short", d)

format_date_full(d) == DateText("full", d)

upper(c) == CASE c = "a" -> "A" [] c = "b" -> "B" [] OTHER -> c

lower(c) == CASE c = "A" -> "a" [] c = "B" -> "b" [] OTHER -> c

strip(s) == lstrip(rstrip(s))

normalize_desc(s) ==
  LET t == strip(s)
  IN  IF t = <<>> THEN t ELSE <<upper(t[1])>> \o Tail(t)

\* round(float(hours), 4)
round4(hours) == RoundTo(hours, Q \div 10000)

_svc_key(date_obj, d, hours) ==
  LET n == strip(normalize_desc(d))
  IN  <<date_obj, [k \in 1..Len(n) |-> lower(n[k])], round4(hours)>>

LineItem(date_obj, d, hours, rate) ==
  [date |-> date_obj, desc |-> d, hours |-> hours, rate |-> rate]

amount(it) == it.hours * it.rate

CostItem(d, qty, unit_price) == [desc |-> d, qty |-> qty, unit_price |-> unit_price]

total(c) == c.qty * c.unit_price

Invoice(default_rate) ==
  [exists |-> TRUE, default_rate |-> default_rate, services |-> <<>>, costs |-> <<>>]

Invoice_add_service_norate(inv, dt, d, hrs) ==
  [inv EXCEPT !.services = Append(@, LineItem(dt, d, hrs, 0))]

Invoice_add_service(inv, dt, d, hrs) ==
  [inv EXCEPT !.services = Append(@, LineItem(dt, d, hrs, inv.default_rate))]

Invoice_add_cost(inv, d, qty, unit_price) ==
  [inv EXCEPT !.costs = Append(@, CostItem(d, qty, unit_price))]

\* sum(...) of Python over a list, left to right from 0
RECURSIVE sum(_)
sum(xs) == IF xs = <<>> THEN 0 ELSE sum(SubSeq(xs, 1, Len(xs) - 1)) + xs[Len(xs)]

total_services(inv) == sum([k \in 1..Len(inv.services) |-> amount(inv.services[k])])

total_costs_stale(inv) ==
  sum([k \in 1..(Len(inv.costs) - 1) |-> total(inv.costs[k])])

total_costs(inv) == sum([k \in 1..Len(inv.costs) |-> total(inv.costs[k])])

grand_total(inv) == total_services(inv) + total_costs(inv)

\* f"{v:,.2f}" of an amount
money2(v) == RoundTo(v, (Q * 100) \div 100)

\* update_totals_labels: the labels keep their text while there is no invoice
update_totals_labels(inv, lbl) ==
  IF ~inv.exists THEN lbl
  ELSE [svc_total  |-> money2(total_services(inv)),
        cost_total |-> money2(total_costs(inv)),
        grand      |-> money2(grand_total(inv)),
        hours_sum  |-> fmt2(sum([k \in 1..Len(inv.services) |-> inv.services[k].hours]), Q).val]

\* rows of the services table for a list of services
ServiceRow(it) == [date |-> format_date(it.date), desc |-> it.desc, hours |-> fmt2(it.hours, Q)]

CostRow(c) == [desc |-> c.desc, qty |-> fmt2(c.qty, Q), price |-> fmt2(c.unit_price, 100)]

\* a sort by date that takes the last of the items of equal date first
RECURSIVE sorted_by_date_last(_)
sorted_by_date_last(items) ==
  IF items = <<>> THEN <<>>
  ELSE LET m == CHOOSE k \in 1..Len(items) :
                  /\ \A j \in 1..Len(items) : items[k].date <= items[j].date
                  /\ \A j \in (k + 1)..Len(items) : items[j].date # items[k].date
       IN  <<items[m]>> \o
           sorted_by_date_last(SubSeq(items, 1, m - 1) \o SubSeq(items, m + 1, Len(items)))

\* sorted(items, key=lambda x: x.date): ascending, equal dates in list order
RECURSIVE sorted_by_date(_)
sorted_by_date(items) ==
  IF items = <<>> THEN <<>>
  ELSE LET m == CHOOSE k \in 1..Len(items) :
                  /\ \A j \in 1..Len(items) : items[k].date <= items[j].date
                  /\ \A j \in 1..(k - 1) : items[j].date # items[k].date
       IN  <<items[m]>> \o
           sorted_by_date(SubSeq(items, 1, m - 1) \o SubSeq(items, m + 1, Len(items)))

\* the services kept by _dedupe_services: the first of each key
RECURSIVE unique_services(_)
unique_services(items) ==
  IF items = <<>> THEN <<>>
  ELSE LET init == unique_services(SubSeq(items, 1, Len(items) - 1))
           it   == items[Len(items)]
           k    == _svc_key(it.date, it.desc, it.hours)
       IN  IF \E j \in 1..Len(init) :
                _svc_key(init[j].date, init[j].desc, init[j].hours) = k
           THEN init
           ELSE Append(init, it)

\* ------------------------------------------------------------------------
\* InvoiceWizard: one action per handler.  The texts and values of the entry
\* forms are the handler's inputs (what the fields hold when it runs); of the
\* forms only the hours spin box and the hours-dirty flag are kept as state.
\* The two _suppress flags are set and cleared inside one handler and are
\* FALSE whenever a handler starts.
\* ------------------------------------------------------------------------
NameTexts == {<<>>, <<"a">>}

RateValues == {10000}

MetaDateTexts == {BadDate, DateText("full", Today)}

SDescTexts == {<<>>, <<" ", "a">>, <<"A">>}

SDateTexts == {BadDate, DateText("full", 1), DateText("short", 2)}

\* values of the hours spin box (two decimals, 0 .. 10000)
HoursValues == {0, 25000}

\* what the user did to the hours spin box before the click: nothing, typed
\* a value (textEdited), or set a value with the arrows (no textEdited)
HoursInputs ==
  {[mode |-> "untouched", val |-> 0]}
    \cup [mode : {"typed", "stepped"}, val : HoursValues]

HoursEditTexts == {JunkText, NumText(0 - Q), NumText(0)}

CDescTexts == {<<>>, <<"b">>}

CDescEditTexts == {<<" ", "b">>}

QtyValues == {Q}

PriceValues == {2000}

QtyEditTexts == {JunkText, NumText(0 - Q), NumText(3 * Q)}

PriceEditTexts == {JunkText, NumText(0 - 100), NumText(0)}

\* InvoiceWizard.__init__ with load_settings
InitWizard ==
  /\ stack = "meta"
  /\ invoice = None
  /\ s_hours = 0
  /\ hours_dirty = FALSE
  /\ s_table = <<>>
  /\ c_table = <<>>
  /\ totals_lbl = [svc_total |-> 0, cost_total |-> 0, grand |-> 0, hours_sum |-> 0]
  /\ require_explicit_zero \in BOOLEAN

\* a rejection that also sets the totals label back to zero
Rejected_zero(title) ==
  /\ totals_lbl' = [svc_total |-> 0, cost_total |-> 0, grand |-> 0, hours_sum |-> 0]
  /\ UNCHANGED <<stack, invoice, s_hours, hours_dirty, s_table, c_table,
                 require_explicit_zero>>

\* a handler that shows a message box and returns
Rejected(title) == UNCHANGED wizVars

go_services(name, rate, date_text) ==
  /\ stack = "meta"
  /\ UNCHANGED notWizVars
  /\ IF strip(name) = <<>> \/ rate <= 0 \/ ~parse_user_date(date_text).ok
     THEN Rejected("Validation")
     ELSE /\ invoice' = Invoice(rate)
          /\ totals_lbl' = update_totals_labels(invoice', totals_lbl)
          /\ stack' = "services"
          /\ UNCHANGED <<s_hours, hours_dirty, s_table, c_table, require_explicit_zero>>

\* a key comparison that looks at the most recent service only
HasKey_last(services, key, skip) ==
  /\ services # <<>>
  /\ Len(services) # skip
  /\ _svc_key(services[Len(services)].date, services[Len(services)].desc,
              services[Len(services)].hours) = key

\* the key of a service is on the invoice, leaving out the service at skip
HasKey(services, key, skip) ==
  \E k \in 1..Len(services) :
    /\ k # skip
    /\ _svc_key(services[k].date, services[k].desc, services[k].hours) = key

add_service(d, date_text, hours_in) ==
  /\ stack = "services"
  /\ invoice.exists
  /\ Len(invoice.services) < MaxSvcItems
  /\ UNCHANGED notWizVars
  /\ LET hrs      == IF hours_in.mode = "untouched" THEN s_hours ELSE hours_in.val
         dirty    == hours_dirty \/ hours_in.mode = "typed"
         raw_desc == strip(d)
         parsed   == parse_user_date(date_text)
         clean    == normalize_desc(raw_desc)
         new_key  == _svc_key(parsed.date, clean, hrs)
     IN  IF raw_desc = <<>> \/ ~parsed.ok
              \/ (require_explicit_zero /\ hrs = 0 /\ ~dirty) \/ hrs < 0
         THEN \* "Validation"
              /\ s_hours' = hrs
              /\ hours_dirty' = dirty
              /\ UNCHANGED <<stack, invoice, s_table, c_table, totals_lbl,
                             require_explicit_zero>>
         ELSE IF HasKey(invoice.services, new_key, 0)
         THEN \* "Duplicate service"
              /\ s_hours' = 0
              /\ hours_dirty' = FALSE
              /\ UNCHANGED <<stack, invoice, s_table, c_table, totals_lbl,
                             require_explicit_zero>>
         ELSE /\ invoice' = Invoice_add_service(invoice, parsed.date, clean, hrs)
              /\ s_table' = Append(s_table, [date  |-> format_date(parsed.date),
                                              desc  |-> clean,
                                              hours |-> fmt2(hrs, Q)])
              /\ s_hours' = 0
              /\ hours_dirty' = FALSE
              /\ totals_lbl' = update_totals_labels(invoice', totals_lbl)
              /\ UNCHANGED <<stack, c_table, require_explicit_zero>>

\* a Clear that leaves the hours-dirty flag as it is
clear_service_form_keep ==
  /\ stack = "services"
  /\ s_hours' = 0
  /\ UNCHANGED <<notWizVars, stack, invoice, hours_dirty, s_table, c_table, totals_lbl,
                 require_explicit_zero>>

clear_service_form ==
  /\ stack = "services"
  /\ s_hours' = 0
  /\ hours_dirty' = FALSE
  /\ UNCHANGED <<notWizVars, stack, invoice, s_table, c_table, totals_lbl,
                 require_explicit_zero>>

\* a removal that takes the first row from the table
remove_last_service_first_row ==
  /\ stack = "services"
  /\ invoice.exists
  /\ UNCHANGED notWizVars
  /\ IF invoice.services = <<>>
     THEN Rejected("Info")
     ELSE /\ invoice' = [invoice EXCEPT
                           !.services = SubSeq(@, 1, Len(@) - 1)]
          /\ s_table' = Tail(s_table)
          /\ totals_lbl' = update_totals_labels(invoice', totals_lbl)
          /\ UNCHANGED <<stack, s_hours, hours_dirty, c_table, require_explicit_zero>>

remove_last_service ==
  /\ stack = "services"
  /\ invoice.exists
  /\ UNCHANGED notWizVars
  /\ IF invoice.services = <<>>
     THEN Rejected("Info")
     ELSE /\ invoice' = [invoice EXCEPT
                           !.services = SubSeq(@, 1, Len(@) - 1)]
          /\ s_table' = SubSeq(s_table, 1, Len(s_table) - 1)
          /\ totals_lbl' = update_totals_labels(invoice', totals_lbl)
          /\ UNCHANGED <<stack, s_hours, hours_dirty, c_table, require_explicit_zero>>

\* Ctrl+D on the services page
prefill_last_service ==
  /\ stack = "services"
  /\ invoice.exists /\ invoice.services # <<>>
  /\ s_hours' = RoundTo(invoice.services[Len(invoice.services)].hours, Q \div 100)
  /\ hours_dirty' = TRUE
  /\ UNCHANGED <<notWizVars, stack, invoice, s_table, c_table, totals_lbl,
                 require_explicit_zero>>

\* the buttons that only change the page: s_done, c_back, r_back
show_page(from, to) ==
  /\ stack = from
  /\ stack' = to
  /\ UNCHANGED <<notWizVars, invoice, s_hours, hours_dirty, s_table, c_table, totals_lbl,
                 require_explicit_zero>>

\* a discard that stays on the page it was asked on
discard_invoice_stay ==
  /\ invoice' = None
  /\ s_table' = <<>>
  /\ c_table' = <<>>
  /\ totals_lbl' = update_totals_labels(invoice', totals_lbl)
  /\ UNCHANGED <<stack, s_hours, hours_dirty, require_explicit_zero>>

\* a discard that leaves the rows of the costs table
discard_invoice_keep_rows ==
  /\ invoice' = None
  /\ s_table' = <<>>
  /\ totals_lbl' = update_totals_labels(invoice', totals_lbl)
  /\ stack' = "meta"
  /\ UNCHANGED <<c_table, s_hours, hours_dirty, require_explicit_zero>>

discard_invoice ==
  /\ invoice' = None
  /\ s_table' = <<>>
  /\ c_table' = <<>>
  /\ totals_lbl' = update_totals_labels(invoice', totals_lbl)
  /\ stack' = "meta"
  /\ UNCHANGED <<s_hours, hours_dirty, require_explicit_zero>>

confirm_reset_to_meta(yes) ==
  /\ stack = "services"
  /\ UNCHANGED notWizVars
  /\ IF invoice.exists /\ (invoice.services # <<>> \/ invoice.costs # <<>>) /\ ~yes
     THEN Rejected("Discard invoice?")
     ELSE discard_invoice

start_new_invoice ==
  /\ stack = "review"
  /\ discard_invoice
  /\ UNCHANGED notWizVars

\* the texts a user can type into a cell of the services table, by column
ServiceCellTexts(col) ==
  CASE col = 0 -> SDateTexts
    [] col = 1 -> SDescTexts
    [] col = 2 -> HoursEditTexts

ServiceField(col) == CASE col = 0 -> "date" [] col = 1 -> "desc" [] col = 2 -> "hours"

SetCell(table, row, field, text) == [table EXCEPT ![row + 1][field] = text]

\* itemChanged of the services table: the user has put text into the cell
on_service_item_changed(row, col, text) ==
  /\ stack = "services"
  /\ row \in 0..(Len(s_table) - 1)
  /\ UNCHANGED <<notWizVars, stack, s_hours, hours_dirty, c_table, require_explicit_zero>>
  /\ IF ~invoice.exists \/ row >= Len(invoice.services)
     THEN /\ s_table' = SetCell(s_table, row, ServiceField(col), text)
          /\ UNCHANGED <<invoice, totals_lbl>>
     ELSE
       LET svc    == invoice.services[row + 1]
           parsed == parse_user_date(text)
           num    == float(text)
           \* the field's old text, the tentative key and the new value
           old    == CASE col = 0 -> format_date(svc.date)
                       [] col = 1 -> svc.desc
                       [] col = 2 -> fmt2(svc.hours, Q)
           bad    == CASE col = 0 -> ~parsed.ok
                       [] col = 1 -> FALSE
                       [] col = 2 -> ~num.ok \/ num.val < 0
           key    == CASE col = 0 -> _svc_key(parsed.date, svc.desc, svc.hours)
                       [] col = 1 -> _svc_key(svc.date, normalize_desc(text), svc.hours)
                       [] col = 2 -> _svc_key(svc.date, svc.desc, num.val)
           new    == CASE col = 0 -> [svc EXCEPT !.date = parsed.date]
                       [] col = 1 -> [svc EXCEPT !.desc = normalize_desc(text)]
                       [] col = 2 -> [svc EXCEPT !.hours = num.val]
           shown  == CASE col = 0 -> format_date(parsed.date)
                       [] col = 1 -> normalize_desc(text)
                       [] col = 2 -> fmt2(num.val, Q)
       IN  IF bad
           THEN \* "Validation"
                /\ s_table' = SetCell(s_table, row, ServiceField(col), old)
                /\ UNCHANGED <<invoice, totals_lbl>>
           ELSE IF HasKey(invoice.services, key, row + 1)
           THEN \* "Duplicate service"
                /\ s_table' = SetCell(s_table, row, ServiceField(col), old)
                /\ UNCHANGED <<invoice, totals_lbl>>
           ELSE /\ invoice' = [invoice EXCEPT !.services[row + 1] = new]
                /\ s_table' = SetCell(s_table, row, ServiceField(col), shown)
                /\ totals_lbl' = update_totals_labels(invoice', totals_lbl)

add_cost(d, qty, price) ==
  /\ stack = "costs"
  /\ invoice.exists
  /\ Len(invoice.costs) < MaxCostItems
  /\ UNCHANGED notWizVars
  /\ IF strip(d) = <<>> \/ qty < 0 \/ price < 0
     THEN Rejected("Validation")
     ELSE /\ invoice' = Invoice_add_cost(invoice, normalize_desc(strip(d)), qty, price)
          /\ c_table' = Append(c_table, [desc  |-> normalize_desc(strip(d)),
                                          qty   |-> fmt2(qty, Q),
                                          price |-> fmt2(price, 100)])
          /\ totals_lbl' = update_totals_labels(invoice', totals_lbl)
          /\ UNCHANGED <<stack, s_hours, hours_dirty, s_table, require_explicit_zero>>

CostCellTexts(col) ==
  CASE col = 0 -> CDescEditTexts
    [] col = 1 -> QtyEditTexts
    [] col = 2 -> PriceEditTexts

CostField(col) == CASE col = 0 -> "desc" [] col = 1 -> "qty" [] col = 2 -> "price"

\* itemChanged of the costs table
on_cost_item_changed(row, col, text) ==
  /\ stack = "costs"
  /\ row \in 0..(Len(c_table) - 1)
  /\ UNCHANGED <<notWizVars, stack, s_hours, hours_dirty, s_table, require_explicit_zero>>
  /\ IF ~invoice.exists \/ row >= Len(invoice.costs)
     THEN /\ c_table' = SetCell(c_table, row, CostField(col), text)
          /\ UNCHANGED <<invoice, totals_lbl>>
     ELSE
       LET cost  == invoice.costs[row + 1]
           num   == float(text)
           old   == CASE col = 1 -> fmt2(cost.qty, Q)
                      [] col = 2 -> fmt2(cost.unit_price, 100)
           new   == CASE col = 0 -> [cost EXCEPT !.desc = normalize_desc(text)]
                      [] col = 1 -> [cost EXCEPT !.qty = num.val]
                      [] col = 2 -> [cost EXCEPT !.unit_price = num.val]
           shown == CASE col = 0 -> normalize_desc(text)
                      [] col = 1 -> fmt2(num.val, Q)
                      [] col = 2 -> fmt2(num.val, 100)
       IN  IF col # 0 /\ (~num.ok \/ num.val < 0)
           THEN \* "Validation"
                /\ c_table' = SetCell(c_table, row, CostField(col), old)
                /\ UNCHANGED <<invoice, totals_lbl>>
           ELSE /\ invoice' = [invoice EXCEPT !.costs[row + 1] = new]
                /\ c_table' = SetCell(c_table, row, CostField(col), shown)
                /\ totals_lbl' = update_totals_labels(invoice', totals_lbl)

\* go_review with _dedupe_services(silent=False)
go_review ==
  /\ stack = "costs"
  /\ invoice.exists
  /\ LET unique  == unique_services(invoice.services)
         removed == Len(invoice.services) - Len(unique)
         rows    == sorted_by_date(unique)
     IN  IF removed > 0
         THEN /\ invoice' = [invoice EXCEPT !.services = unique]
              /\ s_table' = [k \in 1..Len(rows) |-> ServiceRow(rows[k])]
              /\ totals_lbl' = update_totals_labels(invoice', totals_lbl)
         ELSE UNCHANGED <<invoice, s_table, totals_lbl>>
  /\ stack' = "review"
  /\ UNCHANGED <<notWizVars, s_hours, hours_dirty, c_table, require_explicit_zero>>

\* export_pdf: generate_pdf fails, or the file is saved and the user closes
\* the dialog or asks for a new invoice
export_pdf(outcome) ==
  /\ stack = "review"
  /\ invoice.exists
  /\ UNCHANGED notWizVars
  /\ CASE outcome = "error" -> Rejected("Error")
       [] outcome = "saved" -> Rejected("PDF saved")
       [] outcome = "new"   -> discard_invoice

\* ------------------------------------------------------------------------
\* SpecInvoice: an Invoice object used through its own methods and
\* attributes, as any caller of the core classes may use it
\* ------------------------------------------------------------------------
MaxInvServices == 3

InvRates == {10000, 20000}

InvDates == {1, 2}

InvDescs == {<<"A">>, <<"B">>}

InvHours == {25000}

wizRest == <<stack, s_hours, hours_dirty, s_table, c_table, totals_lbl,
             require_explicit_zero>>

\* Invoice(client_name, invoice_date, default_rate)
InitInvoice ==
  /\ PdfIdle /\ WrapIdle
  /\ stack = "idle" /\ s_hours = 0 /\ hours_dirty = FALSE
  /\ s_table = <<>> /\ c_table = <<>> /\ totals_lbl = <<>>
  /\ require_explicit_zero = TRUE
  /\ invoice \in {Invoice(r) : r \in InvRates}
  /\ DocIdle /\ IoIdle

\* invoice.add_service(dt, desc, hrs)
AddService(dt, d, hrs) ==
  /\ invoice.exists
  /\ Len(invoice.services) < MaxInvServices
  /\ invoice' = Invoice_add_service(invoice, dt, d, hrs)
  /\ UNCHANGED <<notWizVars, wizRest>>

\* invoice.default_rate = rate
SetDefaultRate(rate) ==
  /\ invoice.exists
  /\ rate # invoice.default_rate
  /\ invoice' = [invoice EXCEPT !.default_rate = rate]
  /\ UNCHANGED <<notWizVars, wizRest>>

\* one row of svc_rows: date, description, hours, rate and amount as texts
svc_row(i) ==
  [date |-> format_date(i.date), desc |-> i.desc, hours |-> fmt2(i.hours, Q),
   rate |-> RoundTo(i.rate, 1), amount |-> money2(amount(i))]

\* generate_pdf builds the rows of the services table
BuildSvcRows ==
  /\ invoice.exists
  /\ LET rows == sorted_by_date(invoice.services)
     IN  svc_rows' = [k \in 1..Len(rows) |-> svc_row(rows[k])]
  /\ UNCHANGED <<wrapVars, pdfVars, wizVars, ioVars, t_pc, t_base, t_row, t_sizes, t_font>>

NextInvoice ==
  \/ \E dt \in InvDates, d \in InvDescs, hrs \in InvHours : AddService(dt, d, hrs)
  \/ \E rate \in InvRates : SetDefaultRate(rate)
  \/ BuildSvcRows

SpecInvoice == InitInvoice /\ [][NextInvoice]_vars

\* ------------------------------------------------------------------------
\* SpecTable: the cells of the rows paginate_table draws.  A font size is a
\* fraction <<n, d>> of lengths in mm per 1/1000 em: the point size times
\* 127 / 360000, so that the width of a text in mm is its summed character
\* width times the size.
\* ------------------------------------------------------------------------
MaxCellChars == 24

RECURSIVE gcd(_, _)
gcd(a, b) == IF b = 0 THEN a ELSE gcd(b, a % b)

Frac(n, d) == LET g == gcd(n, d) IN <<n \div g, d \div g>>

FracMul(a, b) ==
  LET g1 == gcd(a[1], b[2])
      g2 == gcd(b[1], a[2])
  IN  <<(a[1] \div g1) * (b[1] \div g2), (a[2] \div g2) * (b[2] \div g1)>>

FracDiv(a, b) == FracMul(a, <<b[2], b[1]>>)

\* a < b
FracLess(a, b) ==
  LET g1 == gcd(a[1], b[1])
      g2 == gcd(a[2], b[2])
  IN  (a[1] \div g1) * (b[2] \div g2) < (b[1] \div g1) * (a[2] \div g2)

FracMax(a, b) == IF FracLess(a, b) THEN b ELSE a

\* the font size of pt points
SizeOfPt(pt) == Frac(pt * 127, MM)

\* pdf.get_string_width(cell) in mm at the font size pdf has
cell_width(cell, size) == FracMul(<<SumCw(cell), 1>>, size)

\* the font size paginate_table sets for a cell, pdf having the size cur
cell_size(cell, w, cur, base_size) ==
  LET text_w == cell_width(cell, cur)
      limit  == <<w \div MM - 2, 1>>
  IN  IF FracLess(limit, text_w)
      THEN FracMax(SizeOfPt(MIN_FONT_PT), FracMul(base_size, FracDiv(limit, text_w)))
      ELSE base_size

\* the sizes of the cells k.. of the row, drawn from left to right
RECURSIVE cell_sizes(_, _, _, _, _)
cell_sizes(row, col_widths, k, cur, base_size) ==
  IF k > Len(row) \/ k > Len(col_widths) THEN <<>>
  ELSE LET size == cell_size(row[k], col_widths[k], cur, base_size)
       IN  <<size>> \o cell_sizes(row, col_widths, k + 1, size, base_size)

DescCells == {Rep(<<"W">>, 2), Rep(<<"W">>, 17), Rep(<<"W">>, MaxCellChars)}

\* "1.00" and "1,000,000.00"
NumCells ==
  { <<"1", ".", "0", "0">>,
    <<"1", ",", "0", "0", "0", ",", "0", "0", "0", ".", "0", "0">> }

TableRows == {<<d, q, u, t>> : d \in DescCells, q \in NumCells, u \in NumCells, t \in NumCells}

\* paginate_table is entered with the base font set
InitTable ==
  /\ PdfIdle /\ WrapIdle /\ WizIdle /\ IoIdle
  /\ svc_rows = <<>>
  /\ t_pc = "row"
  /\ t_base \in MIN_FONT_PT..MAX_FONT_PT
  /\ t_row \in TableRows
  /\ t_sizes = <<>>
  /\ t_font = SizeOfPt(t_base)

\* the cells of one row are drawn, then the base font is set again
DrawTableRow ==
  /\ t_pc = "row"
  /\ t_sizes' = cell_sizes(t_row, cost_col_w, 1, t_font, SizeOfPt(t_base))
  /\ t_font' = SizeOfPt(t_base)
  /\ t_pc' = "drawn"
  /\ UNCHANGED <<wrapVars, pdfVars, wizVars, ioVars, svc_rows, t_base, t_row>>

\* the loop goes on to the next row
NextTableRow ==
  /\ t_pc = "drawn"
  /\ t_row' \in TableRows
  /\ t_pc' = "row"
  /\ UNCHANGED <<wrapVars, pdfVars, wizVars, ioVars, svc_rows, t_base, t_sizes, t_font>>

NextTable ==
  \/ DrawTableRow
  \/ NextTableRow

SpecTable == InitTable /\ [][NextTable]_vars

\* ------------------------------------------------------------------------
\* SpecWrap: wrap_text_lines applied to every text of up to MaxTextLen
\* characters, at the smallest and the largest font size
\* ------------------------------------------------------------------------
Texts == UNION {[1..n -> Chars] : n \in 0..MaxTextLen}

WrapWidthsMm == {4, 5, 9, 12}

\* " ".join(lines)
RECURSIVE JoinSpaces(_)
JoinSpaces(ls) ==
  IF ls = <<>> THEN <<>>
  ELSE IF Len(ls) = 1 THEN ls[1]
  ELSE ls[1] \o <<" ">> \o JoinSpaces(Tail(ls))

\* "".join(lines)
RECURSIVE Concat(_)
Concat(ls) == IF ls = <<>> THEN <<>> ELSE Head(ls) \o Concat(Tail(ls))

RECURSIVE NoSpace(_)
NoSpace(s) ==
  IF s = <<>> THEN <<>>
  ELSE IF IsSpace(Head(s)) THEN NoSpace(Tail(s))
  ELSE <<Head(s)>> \o NoSpace(Tail(s))

InitWrap ==
  /\ PdfIdle
  /\ WizIdle
  /\ DocIdle
  /\ IoIdle
  /\ w_pc = "input"
  /\ w_text \in Texts
  /\ w_max \in {m * MM : m \in WrapWidthsMm}
  /\ w_pt \in {MIN_FONT_PT, MAX_FONT_PT}
  /\ w_lines = <<>>
  /\ w_relines = <<>>

Wrap ==
  /\ w_pc = "input"
  /\ w_lines' = wrap_text_lines(w_text, w_max, w_pt)
  /\ w_pc' = "wrapped"
  /\ UNCHANGED <<notWrapVars, w_text, w_max, w_pt, w_relines>>

ReWrap ==
  /\ w_pc = "wrapped"
  /\ w_relines' = wrap_text_lines(JoinSpaces(w_lines), w_max, w_pt)
  /\ w_pc' = "rewrapped"
  /\ UNCHANGED <<notWrapVars, w_text, w_max, w_pt, w_lines>>

NextWrap == Wrap \/ ReWrap

SpecWrap == InitWrap /\ [][NextWrap]_vars

\* ------------------------------------------------------------------------
\* File names and the export directory (SpecExport)
\*
\* export_pdf runs on the review page: it renders the file name of the
\* invoice, makes it unique in the export directory, has generate_pdf write
\* the document with pdf.output and reports the outcome. pdf.output creates
\* the file at the path it is given and writes the document into it; it can
\* raise before the file exists (missing directory, no permission) or after
\* it was created (disk full, I/O error), and generate_pdf and export_pdf
\* hold no code that removes the file. Paths are file names inside the one
\* export directory; nothing else writes to it while export_pdf runs.
\* ------------------------------------------------------------------------
\* most copies of one file name the directory holds before the first export,
\* and most files the exports create
MaxCopies == 2

\* the characters of [A-Za-z0-9 _\-]
AllowedChars ==
  {"a", "b", "c", "d", "e", "f", "g", "h", "i", "j", "k", "l", "m", "n", "o", "p", "q", "r", "s", "t", "u", "v", "w", "x", "y", "z", "A", "B", "C", "D", "E", "F", "G", "H", "I", "J", "K", "L", "M", "N", "O", "P", "Q", "R", "S", "T", "U", "V", "W", "X", "Y", "Z",
   "0", "1", "2", "3", "4", "5", "6", "7", "8", "9", " ", "_", "-"}

\* re.sub(r"[^A-Za-z0-9 _\-]", "", name)
re_sub_disallowed(name) == SelectSeq(name, LAMBDA c : c \in AllowedChars)

\* every space becomes an underscore of its own
re_sub_spaces_each(s) == [i \in 1..Len(s) |-> IF IsSpace(s[i]) THEN "_" ELSE s[i]]

\* re.sub(r"\s+", "_", s)
RECURSIVE re_sub_spaces(_)
re_sub_spaces(s) ==
  IF s = <<>> THEN <<>>
  ELSE IF IsSpace(Head(s)) THEN <<"_">> \o re_sub_spaces(lstrip(s))
  ELSE <<Head(s)>> \o re_sub_spaces(Tail(s))

sanitize_client(name) == re_sub_spaces(strip(re_sub_disallowed(name)))

\* ui_mmddyyyy.replace("/", "-")
date_for_filename(ui_mmddyyyy) ==
  [i \in 1..Len(ui_mmddyyyy) |-> IF ui_mmddyyyy[i] = "/" THEN "-" ELSE ui_mmddyyyy[i]]

\* the index of the first "}" of t from i on, 0 when there is none
RECURSIVE FieldEnd(_, _)
FieldEnd(t, i) ==
  IF i > Len(t) THEN 0 ELSE IF t[i] = "}" THEN i ELSE FieldEnd(t, i + 1)

\* template.format(client=client, date=date_str) from character i on: "{{"
\* and "}}" are literal braces, {client} and {date} are replaced, and any
\* other field, a brace that is not closed and a single "}" raise
RECURSIVE format(_, _, _, _, _)
format(t, i, acc, client, date_str) ==
  IF i > Len(t) THEN [ok |-> TRUE, s |-> acc]
  ELSE IF t[i] = "{" THEN
    IF i < Len(t) /\ t[i + 1] = "{" THEN format(t, i + 2, acc \o <<"{">>, client, date_str)
    ELSE LET j == FieldEnd(t, i + 1)
             field == SubSeq(t, i + 1, j - 1)
         IN  IF j = 0 THEN [ok |-> FALSE, s |-> <<>>]
             ELSE IF field = <<"c", "l", "i", "e", "n", "t">> THEN format(t, j + 1, acc \o client, client, date_str)
             ELSE IF field = <<"d", "a", "t", "e">> THEN format(t, j + 1, acc \o date_str, client, date_str)
             ELSE [ok |-> FALSE, s |-> <<>>]
  ELSE IF t[i] = "}" THEN
    IF i < Len(t) /\ t[i + 1] = "}" THEN format(t, i + 2, acc \o <<"}">>, client, date_str)
    ELSE [ok |-> FALSE, s |-> <<>>]
  ELSE format(t, i + 1, acc \o <<t[i]>>, client, date_str)

\* f"{client}_invoice[{date_str}].pdf"
DefaultPattern(client, date_str) ==
  client \o <<"_", "i", "n", "v", "o", "i", "c", "e", "[">> \o date_str \o <<"]", ".", "p", "d", "f">>

\* the default of pdf.file_naming_template
DefaultTemplate == <<"{", "c", "l", "i", "e", "n", "t", "}", "_", "i", "n", "v", "o", "i", "c", "e", "[", "{", "d", "a", "t", "e", "}", "]", ".", "p", "d", "f">>

render_filename_from_template(tpl, name, ui_mmddyyyy) ==
  LET client == sanitize_client(name)
      date_str == date_for_filename(ui_mmddyyyy)
      r == format(tpl, 1, <<>>, client, date_str)
  IN  IF r.ok THEN r.s ELSE DefaultPattern(client, date_str)

default_pdf_filename(tpl, name, ui_mmddyyyy) ==
  render_filename_from_template(tpl, name, ui_mmddyyyy)

\* name.rfind("."), counted from 1, 0 when there is no dot
RECURSIVE rfind_dot(_, _)
rfind_dot(name, i) ==
  IF i = 0 THEN 0 ELSE IF name[i] = "." THEN i ELSE rfind_dot(name, i - 1)

\* Path.suffix and Path.stem of a file name: the last dot starts the suffix
\* unless it is the first or the last character
HasSuffix(name) ==
  LET i == rfind_dot(name, Len(name)) IN 1 < i /\ i < Len(name)

suffix(name) ==
  IF HasSuffix(name) THEN SubSeq(name, rfind_dot(name, Len(name)), Len(name)) ELSE <<>>

stem(name) ==
  IF HasSuffix(name) THEN SubSeq(name, 1, rfind_dot(name, Len(name)) - 1) ELSE name

\* str(n) of a natural number
RECURSIVE str(_)
str(n) ==
  LET d == <<"0", "1", "2", "3", "4", "5", "6", "7", "8", "9">>
  IN  IF n < 10 THEN <<d[n + 1]>> ELSE str(n \div 10) \o <<d[(n % 10) + 1]>>

\* p.suffix or ".pdf"
suffix_or_pdf(p) == IF suffix(p) = <<>> THEN <<".", "p", "d", "f">> ELSE suffix(p)

\* f"{stem} ({n}){suffix}", and f"{stem}{suffix}" for n = 0
Candidate(p, n) ==
  IF n = 0 THEN stem(p) \o suffix_or_pdf(p)
  ELSE stem(p) \o <<" ", "(">> \o str(n) \o <<")">> \o suffix_or_pdf(p)

\* the " (1)" name whenever the first candidate is taken
uniquify_path_first(p, existing) ==
  IF Candidate(p, 0) \notin existing THEN Candidate(p, 0) ELSE Candidate(p, 1)

\* the while loop of uniquify_path: candidate n was tried, n + 1 is next
RECURSIVE uniquify_loop(_, _, _)
uniquify_loop(p, existing, n) ==
  IF Candidate(p, n) \notin existing THEN Candidate(p, n)
  ELSE uniquify_loop(p, existing, n + 1)

\* uniquify_path(p) in a directory that holds the files existing
uniquify_path(p, existing) == uniquify_loop(p, existing, 0)

ClientNames ==
  {<<"O", "'", "B", "r", "i", "e", "n", " ", "&", " ", "S", "o", "n", "s", ",", " ", "L", "t", "d", ".">>,
   <<" ", "A", " ", " ", "b", "_", "c", "-", "9", " ">>,
   <<"&", "\t", "&">>}

InvoiceDates == {<<"0", "3", "/", "0", "7", "/", "2", "0", "2", "5">>}

Templates ==
  {DefaultTemplate,
   <<"{", "c", "l", "i", "e", "n", "t", "}", "-", "{", "d", "a", "t", "e", "}">>,
   <<"{", "c", "l", "i", "e", "n", "t", "}", "_", "{", "d", "a", "t", "e">>,
   <<"{", "n", "a", "m", "e", "}", ".", "p", "d", "f">>}

\* the names of the export directory that matter to the file name p
NamesNear(p) == {p} \cup {Candidate(p, n) : n \in 0..MaxCopies}

\* the decimal digits of n >= 0
Digit(d) == <<"0", "1", "2", "3", "4", "5", "6", "7", "8", "9">>[d + 1]

RECURSIVE Digits(_)
Digits(n) == IF n < 10 THEN <<Digit(n)>> ELSE Append(Digits(n \div 10), Digit(n % 10))

\* the "," option of the format specification: a comma before every group
\* of three digits, counted from the right
RECURSIVE Grouped(_)
Grouped(ds) ==
  IF Len(ds) <= 3 THEN ds
  ELSE Grouped(SubSeq(ds, 1, Len(ds) - 3)) \o <<",">> \o SubSeq(ds, Len(ds) - 2, Len(ds))

\* f"{v:.2f}" of an amount v >= 0 given in 1/100 of the unit
plain_2f(cents) ==
  Digits(cents \div 100) \o <<".", Digit((cents % 100) \div 10), Digit(cents % 10)>>

\* f"{v:,.2f}" of an amount v >= 0 given in 1/100 of the unit
grouped_2f(cents) ==
  Grouped(Digits(cents \div 100))
    \o <<".", Digit((cents % 100) \div 10), Digit(cents % 10)>>

\* the cents of a product of hours or quantity and a price, rounded as
\* the format rounds it
CentsOf(v) == money2(v) \div Q

\* the money texts generate_pdf writes: rate and amount of every service
\* row, the services total, unit price and total of every cost row, the
\* costs total and the grand total
money_texts(inv) ==
  LET svcs == sorted_by_date(inv.services)
  IN  [rates       |-> [k \in 1..Len(svcs) |-> grouped_2f(svcs[k].rate)],
       amounts     |-> [k \in 1..Len(svcs) |-> grouped_2f(CentsOf(amount(svcs[k])))],
       svc_total   |-> grouped_2f(CentsOf(total_services(inv))),
       prices      |-> [k \in 1..Len(inv.costs) |-> grouped_2f(inv.costs[k].unit_price)],
       totals      |-> [k \in 1..Len(inv.costs) |-> grouped_2f(CentsOf(total(inv.costs[k])))],
       cost_total  |-> grouped_2f(CentsOf(total_costs(inv))),
       grand_total |-> grouped_2f(CentsOf(grand_total(inv)))]

\* the invoices on the review page: without items, with one service of 15
\* hours, and with that service and a cost of 2 pieces at 150.00
ExportInvoices ==
  UNION {LET one == Invoice_add_service(Invoice(r), Today, <<"A">>, 15 * Q)
         IN  {Invoice(r), one, Invoice_add_cost(one, <<"b">>, 2 * Q, 15000)}
         : r \in RateValues}

\* the review page of an invoice, and an export directory with older files
InitExport ==
  /\ PdfIdle /\ WrapIdle /\ DocIdle /\ SetIdle
  /\ stack = "review"
  /\ invoice \in ExportInvoices
  /\ s_hours = 0 /\ hours_dirty = FALSE /\ s_table = <<>> /\ c_table = <<>>
  /\ totals_lbl = [svc_total |-> 0, cost_total |-> 0, grand |-> 0, hours_sum |-> 0]
  /\ require_explicit_zero = TRUE
  /\ thousand_separators \in BOOLEAN
  /\ doc_money = <<>>
  /\ e_pc = "review"
  /\ client_name \in ClientNames
  /\ invoice_date \in InvoiceDates
  /\ template \in Templates
  /\ \E S \in SUBSET NamesNear(default_pdf_filename(template, client_name, invoice_date)) :
       files = [f \in S |-> "old"]
  /\ outfile = <<>> /\ dialog = "" /\ written = {}

\* export_pdf down to the call of generate_pdf: the file name of the
\* invoice, made unique in the export directory
ExportBegin ==
  /\ e_pc = "review"
  /\ stack = "review"
  /\ invoice.exists
  /\ Cardinality(written) < MaxCopies
  /\ outfile' = uniquify_path(default_pdf_filename(template, client_name, invoice_date),
                              DOMAIN files)
  /\ e_pc' = "generate"
  /\ UNCHANGED <<wrapVars, pdfVars, wizVars, docVars, setVars, client_name, invoice_date,
                 template, files, dialog, written, thousand_separators, doc_money>>

\* the directory after pdf.output created the file f with content kind
FileCreated(f, kind) == [g \in DOMAIN files \cup {f} |-> IF g = f THEN kind ELSE files[g]]

\* generate_pdf(filename=str(outfile)): pdf.output(out) writes the whole
\* document, raises before it created the file, or raises while it writes
PdfOutput(result) ==
  /\ e_pc = "generate"
  /\ CASE result = "whole" ->
            /\ files' = FileCreated(outfile, "pdf")
            /\ written' = written \cup {outfile}
            /\ doc_money' = money_texts(invoice)
            /\ e_pc' = "written"
       [] result = "not created" ->
            /\ UNCHANGED <<files, written, doc_money>>
            /\ e_pc' = "raised"
       [] result = "partial" ->
            /\ files' = FileCreated(outfile, "partial")
            /\ written' = written \cup {outfile}
            /\ UNCHANGED doc_money
            /\ e_pc' = "raised"
  /\ UNCHANGED <<wrapVars, pdfVars, wizVars, docVars, setVars, client_name, invoice_date,
                 template, outfile, dialog, thousand_separators>>

\* export_pdf after generate_pdf: the error box, or the saved dialog and the
\* button the user clicks in it
ExportReport(clicked) ==
  /\ e_pc \in {"raised", "written"}
  /\ IF e_pc = "raised"
     THEN /\ dialog' = "Error"
          /\ e_pc' = "review"
          /\ UNCHANGED wizVars
     ELSE /\ dialog' = "PDF saved"
          /\ IF clicked \in {"new", "menu"}
             THEN /\ discard_invoice
                  /\ e_pc' = "closed"
             ELSE /\ e_pc' = "review"
                  /\ UNCHANGED wizVars
  /\ UNCHANGED <<wrapVars, pdfVars, docVars, setVars, client_name, invoice_date, template,
                 files, outfile, written, thousand_separators, doc_money>>

NextExport ==
  \/ ExportBegin
  \/ \E result \in {"whole", "not created", "partial"} : PdfOutput(result)
  \/ \E clicked \in {"open", "folder", "new", "menu", "close"} : ExportReport(clicked)

SpecExport == InitExport /\ [][NextExport]_vars

\* ------------------------------------------------------------------------
\* The settings module (SpecSettings)
\*
\* A Python or JSON value is a record [t, n, s, d]: its type, its number
\* (floats count in 1/100, True is 1), its string, and for a dict, list or
\* tuple the set of its <<key, value>> pairs. A tuple is written to the file
\* as a JSON list; an object that json.dump cannot encode makes the write
\* fail.
\* ------------------------------------------------------------------------
\* most calls of set_ in one behaviour
MaxSets == 2

Value(t, n, s, d) == [t |-> t, n |-> n, s |-> s, d |-> d]

PyFloat(n) == Value("float", n, "", {})

PyInt(n) == Value("int", n, "", {})

PyStr(s) == Value("str", 0, s, {})

PyBool(b) == Value("bool", IF b THEN 1 ELSE 0, "", {})

PyNone == Value("null", 0, "", {})

\* a dict with the keys and values of the function f
PyDict(f) == Value("dict", 0, "", {<<k, f[k]>> : k \in DOMAIN f})

\* a list or tuple with the items of the sequence xs, keyed by their index
IndexKey(i) == <<"0", "1", "2", "3">>[i]

PyList(xs) == Value("list", 0, "", {<<IndexKey(i), xs[i]>> : i \in 1..Len(xs)})

PyTuple(xs) == Value("tuple", 0, "", {<<IndexKey(i), xs[i]>> : i \in 1..Len(xs)})

\* an object json.dump raises TypeError for
PyObj == Value("obj", 0, "Path", {})

IsDict(x) == x.t = "dict"

\* the keys of a dict (the indices of a list), and the value under a key
Keys(x) == {p[1] : p \in x.d}

Item(x, k) == (CHOOSE p \in x.d : p[1] = k)[2]

\* settings.DEFAULTS
DEFAULTS ==
  PyDict([version |-> PyInt(1),
        general |-> PyDict([default_rate |-> PyFloat(25000),
                          default_export_dir |-> PyStr("~/Documents/BetterBilling/exports"),
                          launch_page |-> PyStr("dashboard")]),
        invoice |-> PyDict([require_explicit_zero_hours |-> PyBool(TRUE)]),
        pdf |-> PyDict([file_naming_template |-> PyStr("{client}_invoice[{date}].pdf"),
                      thousand_separators |-> PyBool(TRUE)]),
        letterhead |-> PyDict([top_margin_in |-> PyFloat(250),
                             default_name |-> PyNone,
                             library |-> PyList(<<>>)]),
        ui |-> PyDict([discard_warning |-> PyBool(TRUE)])])

\* the strings of the model that float() reads as a number
NumberStrings == {"3"}

\* int(x): [ok, val]; it raises for None, for containers and for a string
\* that is no integer literal
int_of(x) ==
  CASE x.t = "int"   -> [ok |-> TRUE, val |-> x.n]
    [] x.t = "float" -> [ok |-> TRUE, val |-> x.n \div 100]
    [] x.t = "bool"  -> [ok |-> TRUE, val |-> x.n]
    [] x.t = "str" /\ x.s \in NumberStrings -> [ok |-> TRUE, val |-> 3]
    [] OTHER -> [ok |-> FALSE, val |-> 0]

\* float(x) in 1/100: [ok, val]
float_of(x) ==
  CASE x.t = "float" -> [ok |-> TRUE, val |-> x.n]
    [] x.t = "int"   -> [ok |-> TRUE, val |-> 100 * x.n]
    [] x.t = "bool"  -> [ok |-> TRUE, val |-> 100 * x.n]
    [] x.t = "str" /\ x.s \in NumberStrings -> [ok |-> TRUE, val |-> 300]
    [] OTHER -> [ok |-> FALSE, val |-> 0]

\* a merge in which the defaults replace what is stored
RECURSIVE _deep_merge_src(_, _)
_deep_merge_src(dst, src) ==
  Value("dict", 0, "",
    {<<k, IF k \notin Keys(src) THEN Item(dst, k)
          ELSE IF k \notin Keys(dst) THEN Item(src, k)
          ELSE IF IsDict(Item(src, k)) /\ IsDict(Item(dst, k))
               THEN _deep_merge_src(Item(dst, k), Item(src, k))
          ELSE Item(src, k)>> : k \in Keys(dst) \cup Keys(src)})

\* _deep_merge(dst, src) of two dicts: a key of src that dst lacks is added,
\* two dicts under one key are merged, anything else of dst is kept
\* (dst.setdefault)
RECURSIVE _deep_merge(_, _)
_deep_merge(dst, src) ==
  Value("dict", 0, "",
    {<<k, IF k \notin Keys(src) THEN Item(dst, k)
          ELSE IF k \notin Keys(dst) THEN Item(src, k)
          ELSE IF IsDict(Item(src, k)) /\ IsDict(Item(dst, k))
               THEN _deep_merge(Item(dst, k), Item(src, k))
          ELSE Item(dst, k)>> : k \in Keys(dst) \cup Keys(src)})

\* node[key] = value
Put(node, key, value) ==
  Value(node.t, 0, "", {p \in node.d : p[1] # key} \cup {<<key, value>>})

\* _migrate(data) of a dict while the module's DEFAULTS is table: [ok, data],
\* not ok when int(version) raises
_migrate_in(data, table) ==
  LET current == Item(table, "version")
      version == int_of(IF "version" \in Keys(data) THEN Item(data, "version") ELSE PyInt(0))
      d1 == IF version.val = 0 THEN _deep_merge(data, table) ELSE data
      d2 == _deep_merge(d1, table)
  IN  IF version.ok
      THEN [ok |-> TRUE, data |-> Put(d2, "version", current)]
      ELSE [ok |-> FALSE, data |-> data]

\* _migrate(data) with DEFAULTS as it is imported
_migrate(data) == _migrate_in(data, DEFAULTS)

\* the keys under which _deep_merge(dst, src) stores a dict of src itself in
\* dst: dst.setdefault(k, v) copies nothing
SharedSections(dst, src) ==
  {k \in Keys(src) \ Keys(dst) : IsDict(Item(src, k))}

\* json.dump can encode x
RECURSIVE Serializable(_)
Serializable(x) == x.t # "obj" /\ \A p \in x.d : Serializable(p[2])

\* json.load(json.dump(x)): what is read back from the text written for x
RECURSIVE json_text(_)
json_text(x) ==
  Value(IF x.t = "tuple" THEN "list" ELSE x.t, x.n, x.s,
        {<<p[1], json_text(p[2])>> : p \in x.d})

\* the settings file
Absent == [kind |-> "absent", val |-> PyNone]

Garbage == [kind |-> "garbage", val |-> PyNone]

Json(x) == [kind |-> "json", val |-> x]

\* _cache = None
NoCache == Value("nocache", 0, "", {})

\* load_settings with the file present (lines 129-140): [raised, cache];
\* _cache is assigned before the export directory is looked up
LoadFrom(d) ==
  LET stored == IF d.kind = "json" /\ IsDict(d.val) THEN d.val ELSE PyDict(<<>>)
      mig == _migrate(stored)
      data == IF d.kind = "json" /\ mig.ok THEN mig.data ELSE DEFAULTS
      gen == Item(data, "general")
      dir_ok == /\ IsDict(gen)
                /\ "default_export_dir" \in Keys(gen)
                /\ Item(gen, "default_export_dir").t = "str"
  IN  [raised |-> ~dir_ok, cache |-> data,
       shared |-> IF d.kind = "json" /\ mig.ok
                  THEN SharedSections(stored, DEFAULTS) ELSE {}]

\* the walk of get(path, default) over the loaded settings; parts is
\* path.split(".")
RECURSIVE get(_, _, _)
get(node, parts, default) ==
  IF parts = <<>> THEN node
  ELSE IF ~IsDict(node) \/ Head(parts) \notin Keys(node) THEN default
  ELSE get(Item(node, Head(parts)), Tail(parts), default)

\* the walk of set_(path, value) over the dict node: [ok, node], not ok
\* when a key on the way holds something that is no dict (TypeError)
RECURSIVE set_walk(_, _, _)
set_walk(node, parts, value) ==
  IF Len(parts) = 1 THEN [ok |-> TRUE, node |-> Put(node, parts[1], value)]
  ELSE LET key == Head(parts)
           child == IF key \in Keys(node) THEN Item(node, key) ELSE PyDict(<<>>)
           r == set_walk(child, Tail(parts), value)
       IN  IF ~IsDict(child) THEN [ok |-> FALSE, node |-> node]
           ELSE [ok |-> r.ok, node |-> IF r.ok THEN Put(node, key, r.node) ELSE node]

\* what a call returned or that it raised
Returned(x) == [raised |-> FALSE, val |-> x]

Raised == [raised |-> TRUE, val |-> PyNone]

Call(op, parts, value) == [op |-> op, path |-> parts, value |-> value]

\* the settings files the program may find
StoredFiles ==
  {Absent, Garbage,
   Json(PyList(<<>>)),
   Json(PyDict(<<>>)),
   Json(json_text(DEFAULTS)),
   Json(PyDict([general |-> PyInt(5)])),
   Json(PyDict([version |-> PyStr("abc")])),
   Json(PyDict([version |-> PyInt(7), extra |-> PyInt(1)])),
   Json(PyDict([letterhead |-> PyInt(3)])),
   Json(PyDict([letterhead |-> PyDict([top_margin_in |-> PyBool(TRUE)])])),
   Json(PyDict([letterhead |-> PyDict([top_margin_in |-> PyStr("3")])])),
   Json(PyDict([letterhead |-> PyDict([top_margin_in |-> PyStr("abc")])])),
   Json(PyDict([letterhead |-> PyDict([top_margin_in |-> PyFloat(500)])]))}

\* the calls set_(path, value) of the model
SetCalls ==
  {<<<<"general", "default_rate">>, PyFloat(35000)>>,
   <<<<"pdf", "file_naming_template">>, PyStr("{client}-{date}.pdf")>>,
   <<<<"letterhead", "top_margin_in">>, PyNone>>,
   <<<<"version">>, PyInt(2)>>,
   <<<<"general">>, PyInt(5)>>,
   <<<<"recent", "sizes">>, PyTuple(<<PyInt(1), PyInt(2)>>)>>,
   <<<<"general", "default_rate", "unit">>, PyStr("h")>>,
   <<<<"general", "default_export_dir">>, PyObj>>}

\* a process starts: nothing is cached
InitSettings ==
  /\ PdfIdle /\ WrapIdle /\ WizIdle /\ DocIdle /\ ExpIdle
  /\ disk \in StoredFiles
  /\ cache = NoCache
  /\ tmp = "none"
  /\ s_pc = "idle"
  /\ s_call = Call("start", <<>>, PyNone)
  /\ s_data = PyNone
  /\ s_exc = FALSE
  /\ s_ret = Returned(PyNone)
  /\ s_prev = disk
  /\ n_sets = 0
  /\ s_before = PyNone
  /\ defaults = DEFAULTS
  /\ shared = {}

notSetVars == <<wrapVars, pdfVars, wizVars, docVars, expVars>>

\* load_settings(): the cached settings, the defaults written as the first
\* file (save_settings goes on from here), or the settings read from the file
load_settings ==
  /\ s_pc = "idle"
  /\ s_call' = Call("load_settings", <<>>, PyNone)
  /\ IF cache # NoCache
     THEN /\ s_ret' = Returned(cache)
          /\ UNCHANGED <<disk, cache, tmp, s_pc, s_data, s_exc, s_prev, n_sets, shared>>
     ELSE IF disk.kind = "absent"
     THEN /\ cache' = DEFAULTS
          /\ s_data' = DEFAULTS
          /\ s_pc' = "save"
          /\ shared' = {}
          /\ UNCHANGED <<disk, tmp, s_exc, s_ret, s_prev, n_sets>>
     ELSE /\ cache' = LoadFrom(disk).cache
          /\ shared' = LoadFrom(disk).shared
          /\ s_ret' = IF LoadFrom(disk).raised THEN Raised ELSE Returned(cache')
          /\ UNCHANGED <<disk, tmp, s_pc, s_data, s_exc, s_prev, n_sets>>
  /\ UNCHANGED defaults
  /\ UNCHANGED s_before
  /\ UNCHANGED notSetVars

\* letterhead_margin_in() of invoice_create, in 1/100 inch:
\* float(settings.get("letterhead.top_margin_in", 2.5)), and 2.5 when
\* anything raises; settings.get loads the settings when none are cached
letterhead_margin_in ==
  /\ s_pc = "idle"
  /\ cache # NoCache \/ disk.kind # "absent"
  /\ s_call' = Call("letterhead_margin_in", <<>>, PyNone)
  /\ LET loaded == IF cache # NoCache
                   THEN [raised |-> FALSE, cache |-> cache, shared |-> shared]
                   ELSE LoadFrom(disk)
         x == float_of(get(loaded.cache, <<"letterhead", "top_margin_in">>, PyFloat(250)))
     IN  /\ cache' = loaded.cache
         /\ shared' = loaded.shared
         /\ s_ret' = Returned(PyFloat(IF loaded.raised \/ ~x.ok THEN 250 ELSE x.val))
  /\ UNCHANGED <<disk, tmp, s_pc, s_data, s_exc, s_prev, n_sets, defaults>>
  /\ UNCHANGED s_before
  /\ UNCHANGED notSetVars

\* set_(path, value) on loaded settings: the value is stored in the cached
\* dict itself, then save_settings(data) goes on from here. A value stored
\* under a section the cache shares with DEFAULTS is stored in DEFAULTS; a
\* value stored in place of a section ends the sharing
set_(parts, value) ==
  /\ s_pc = "idle"
  /\ cache # NoCache
  /\ n_sets < MaxSets
  /\ n_sets' = n_sets + 1
  /\ s_call' = Call("set_", parts, value)
  /\ s_before' = get(cache, parts, PyNone)
  /\ LET r == set_walk(cache, parts, value)
     IN  IF r.ok
         THEN /\ cache' = r.node
              /\ s_data' = r.node
              /\ s_pc' = "save"
              /\ shared' = IF Len(parts) = 1 THEN shared \ {parts[1]} ELSE shared
              /\ defaults' = IF Len(parts) > 1 /\ parts[1] \in shared
                             THEN Put(defaults, parts[1], Item(r.node, parts[1]))
                             ELSE defaults
              /\ UNCHANGED <<disk, tmp, s_exc, s_ret, s_prev>>
         ELSE /\ s_ret' = Raised
              /\ UNCHANGED <<disk, cache, tmp, s_pc, s_data, s_exc, s_prev, aliasVars>>
  /\ UNCHANGED notSetVars

\* save_settings(data) down to mkstemp: data is migrated, the temporary file
\* is created next to the settings file; int(version) or mkstemp may raise
save_settings(made) ==
  /\ s_pc = "save"
  /\ s_prev' = disk
  /\ IF _migrate_in(s_data, defaults).ok /\ made
     THEN /\ s_data' = _migrate_in(s_data, defaults).data
          /\ tmp' = "empty"
          /\ s_pc' = "dump"
          /\ UNCHANGED <<disk, cache, s_call, s_exc, s_ret, n_sets>>
     ELSE /\ s_ret' = Raised
          /\ s_pc' = "idle"
          /\ UNCHANGED <<disk, cache, tmp, s_call, s_data, s_exc, n_sets>>
  /\ UNCHANGED aliasVars
  /\ UNCHANGED s_before
  /\ UNCHANGED notSetVars

\* json.dump(data, f) into the temporary file: all of it, or an exception
\* after a part was written (a value JSON cannot encode, a full disk)
save_dump(all) ==
  /\ s_pc = "dump"
  /\ IF Serializable(s_data) /\ all
     THEN /\ tmp' = "whole"
          /\ s_pc' = "replace"
          /\ UNCHANGED s_exc
     ELSE /\ tmp' = "partial"
          /\ s_exc' = TRUE
          /\ s_pc' = "finally"
  /\ UNCHANGED <<disk, cache, s_call, s_data, s_ret, s_prev, n_sets>>
  /\ UNCHANGED aliasVars
  /\ UNCHANGED s_before
  /\ UNCHANGED notSetVars

\* the temporary file stays where it is
save_finally_keep ==
  /\ s_pc = "finally"
  /\ s_pc' = "idle"
  /\ s_exc' = FALSE
  /\ IF s_exc THEN s_ret' = Raised /\ UNCHANGED cache
     ELSE cache' = s_data /\ s_ret' = Returned(PyNone)
  /\ UNCHANGED <<disk, tmp, s_call, s_data, s_prev, n_sets>>
  /\ UNCHANGED aliasVars
  /\ UNCHANGED s_before
  /\ UNCHANGED notSetVars

\* os.replace(tmp, path): the settings file becomes the temporary file in
\* one step, or the call raises and both files stay
save_replace(ok) ==
  /\ s_pc = "replace"
  /\ IF ok
     THEN /\ disk' = Json(json_text(s_data))
          /\ tmp' = "none"
          /\ UNCHANGED s_exc
     ELSE /\ s_exc' = TRUE
          /\ UNCHANGED <<disk, tmp>>
  /\ s_pc' = "finally"
  /\ UNCHANGED <<cache, s_call, s_data, s_ret, s_prev, n_sets>>
  /\ UNCHANGED aliasVars
  /\ UNCHANGED s_before
  /\ UNCHANGED notSetVars

\* the finally block removes the temporary file if it is still there; then
\* the exception goes on to the caller, or _cache = data and the call returns
save_finally ==
  /\ s_pc = "finally"
  /\ tmp' = "none"
  /\ s_pc' = "idle"
  /\ s_exc' = FALSE
  /\ IF s_exc THEN s_ret' = Raised /\ UNCHANGED cache
     ELSE cache' = s_data /\ s_ret' = Returned(PyNone)
  /\ UNCHANGED <<disk, s_call, s_data, s_prev, n_sets>>
  /\ UNCHANGED aliasVars
  /\ UNCHANGED s_before
  /\ UNCHANGED notSetVars

\* the program is started again: the module is imported with _cache = None
\* and DEFAULTS as written
restart ==
  /\ s_pc = "idle"
  /\ cache # NoCache
  /\ cache' = NoCache
  /\ defaults' = DEFAULTS
  /\ shared' = {}
  /\ s_call' = Call("start", <<>>, PyNone)
  /\ s_ret' = Returned(PyNone)
  /\ UNCHANGED <<disk, tmp, s_pc, s_data, s_exc, s_prev, n_sets>>
  /\ UNCHANGED s_before
  /\ UNCHANGED notSetVars

NextSettings ==
  \/ load_settings
  \/ letterhead_margin_in
  \/ \E c \in SetCalls : set_(c[1], c[2])
  \/ \E made \in BOOLEAN : save_settings(made)
  \/ \E all \in BOOLEAN : save_dump(all)
  \/ \E ok \in BOOLEAN : save_replace(ok)
  \/ save_finally
  \/ restart

SpecSettings == InitSettings /\ [][NextSettings]_vars

\* ------------------------------------------------------------------------
\* The wizard next to the Settings page (SpecWizard, SpecWizardSettings)
\* ------------------------------------------------------------------------
ExplicitZeroPath == <<"invoice", "require_explicit_zero_hours">>

\* bool(x)
bool(x) ==
  CASE x.t \in {"bool", "int", "float"} -> x.n # 0
    [] x.t = "str" -> x.s # ""
    [] x.t \in {"dict", "list", "tuple"} -> x.d # {}
    [] x.t = "null" -> FALSE
    [] OTHER -> TRUE

\* the settings the program has loaded when the window is built
LoadedSettings ==
  {DEFAULTS, set_walk(DEFAULTS, ExplicitZeroPath, PyBool(FALSE)).node}

\* SettingsPage._save_explicit_zero: the check box was toggled to checked;
\* settings.set_ stores the value in the cached settings, from which
\* settings.get reads it, whether or not the file is written
_save_explicit_zero(checked) ==
  /\ stack \in {"meta", "services", "costs", "review"}
  /\ checked # bool(get(cache, ExplicitZeroPath, PyBool(TRUE)))
  /\ cache' = set_walk(cache, ExplicitZeroPath, PyBool(checked)).node
  /\ UNCHANGED <<disk, tmp, s_pc, s_call, s_data, s_exc, s_ret, s_prev, n_sets,
                 s_before, aliasVars>>
  /\ UNCHANGED notSetVars

NextWizard ==
  \/ \E name \in NameTexts, rate \in RateValues, date_text \in MetaDateTexts :
       go_services(name, rate, date_text)
  \/ \E d \in SDescTexts, date_text \in SDateTexts, hours_in \in HoursInputs :
       add_service(d, date_text, hours_in)
  \/ clear_service_form
  \/ remove_last_service
  \/ prefill_last_service
  \/ \E row \in 0..(MaxSvcItems - 1), col \in 0..2 :
       \E text \in ServiceCellTexts(col) : on_service_item_changed(row, col, text)
  \/ \E yes \in BOOLEAN : confirm_reset_to_meta(yes)
  \/ show_page("services", "costs")
  \/ \E d \in CDescTexts, qty \in QtyValues, price \in PriceValues : add_cost(d, qty, price)
  \/ \E row \in 0..(MaxCostItems - 1), col \in 0..2 :
       \E text \in CostCellTexts(col) : on_cost_item_changed(row, col, text)
  \/ show_page("costs", "services")
  \/ go_review
  \/ show_page("review", "costs")
  \/ start_new_invoice
  \/ \E outcome \in {"error", "saved", "new"} : export_pdf(outcome)

InitWiz == InitWizard /\ PdfIdle /\ WrapIdle /\ DocIdle /\ IoIdle

SpecWizard == InitWiz /\ [][NextWizard]_vars

\* the main window is built: the settings are loaded, InvoiceWizard.__init__
\* ends with load_settings(), which reads the explicit-zero rule
InitWizardSettings ==
  /\ InitWizard /\ PdfIdle /\ WrapIdle /\ DocIdle /\ ExpIdle /\ SetQuiet
  /\ cache \in LoadedSettings
  /\ require_explicit_zero = bool(get(cache, ExplicitZeroPath, PyBool(TRUE)))

\* the wizard, and the Settings page of the same window
NextWizardSettings ==
  \/ NextWizard
  \/ \E checked \in BOOLEAN : _save_explicit_zero(checked)

SpecWizardSettings == InitWizardSettings /\ [][NextWizardSettings]_vars

\* ------------------------------------------------------------------------
\* Claims about wrap_text_lines
\* ------------------------------------------------------------------------
Wrapped == w_pc \in {"wrapped", "rewrapped"}

MaxCwOf(s) ==
  IF s = <<>> THEN 0
  ELSE CHOOSE m \in {cw(s[i]) : i \in 1..Len(s)} :
         \A i \in 1..Len(s) : cw(s[i]) <= m

\* the widest character of the text is at most max_width wide
WidestCharFits == \A i \in 1..Len(w_text) : get_string_width(<<w_text[i]>>, w_pt) <= w_max

HasSpace(s) == \E i \in 1..Len(s) : IsSpace(s[i])

HasPunct(s) == \E i \in 1..Len(s) : IsPunct(s[i])

\* C5: for a non-empty text and a max width at least as wide as the widest
\* single character, wrap_text_lines returns at least one line and every
\* returned line measures at most max_width.
C5_LinesFit ==
  (Wrapped /\ w_text # <<>> /\ WidestCharFits) =>
    /\ Len(w_lines) >= 1
    /\ \A i \in 1..Len(w_lines) : get_string_width(w_lines[i], w_pt) <= w_max

\* C5 witness: a token was emergency-split and a returned line is wider than
\* max_width minus the safety margin, yet within max_width.
C5_Witness ==
  /\ Wrapped /\ w_text # <<>> /\ WidestCharFits
  /\ Len(w_lines) >= 2
  /\ \E i \in 1..Len(w_lines) :
       /\ too_wide(w_lines[i], w_max, w_pt)
       /\ get_string_width(w_lines[i], w_pt) <= w_max

\* C6: the returned lines, concatenated in order, equal the input up to
\* whitespace; for a text without whitespace they equal the input exactly.
C6_NoCharLost ==
  Wrapped =>
    /\ NoSpace(Concat(w_lines)) = NoSpace(w_text)
    /\ ~HasSpace(w_text) => Concat(w_lines) = w_text

\* C6 witness: one unbroken token without whitespace was emergency-split over
\* three or more lines.
C6_Witness ==
  /\ Wrapped
  /\ ~HasSpace(w_text) /\ ~HasPunct(w_text)
  /\ Len(w_lines) >= 3
  /\ Concat(w_lines) = w_text

\* the number of characters that fit in one line whatever the characters of
\* the text are: the limit divided by the widest character of the text
MinCharsPerLine(s, max_w_mm, pt) ==
  (max_w_mm - WRAP_SAFETY) \div (MaxCwOf(s) * pt * 127)

CeilDiv(a, b) == (a + b - 1) \div b

LineBound ==
  Len(w_lines) <= CeilDiv(Len(w_text), MinCharsPerLine(w_text, w_max, w_pt))

C7_Case ==
  /\ Wrapped
  /\ w_text # <<>>
  /\ ~HasSpace(w_text)
  /\ get_string_width(w_text, w_pt) > w_max
  /\ MinCharsPerLine(w_text, w_max, w_pt) >= 1

\* C7 as stated: a text without whitespace that is wider than max_width is
\* wrapped into at most ceil(length / min_chars_per_line) lines.
C7_Original == C7_Case => LineBound

\* C7 amended: the bound holds for a text that contains neither whitespace
\* nor a breakable punctuation character (one unbroken token).
C7_LineBound == (C7_Case /\ ~HasPunct(w_text)) => LineBound

\* C7 witness: an unbroken token wider than max_width meets the bound with
\* equality on two or more lines.
C7_Witness ==
  /\ C7_Case /\ ~HasPunct(w_text)
  /\ Len(w_lines) >= 2
  /\ Len(w_lines) = CeilDiv(Len(w_text), MinCharsPerLine(w_text, w_max, w_pt))

\* C8 as stated: joining the lines with single spaces and wrapping again at
\* the same width yields the same number of lines.
C8_Original == w_pc = "rewrapped" => Len(w_relines) = Len(w_lines)

SingleSpaced(s) == \A i \in 1..(Len(s) - 1) : ~(IsSpace(s[i]) /\ IsSpace(s[i + 1]))

NoEmergency(s, max_w_mm, pt) ==
  LET toks == re_split(s)
  IN  \A k \in 1..Len(toks) : ~too_wide(toks[k], max_w_mm, pt)

\* C8 amended: re-wrapping keeps the number of lines for a text whose
\* whitespace runs are single spaces and in which no token alone is wider
\* than the line (no emergency split).
C8_RewrapStable ==
  (w_pc = "rewrapped" /\ SingleSpaced(w_text) /\ NoEmergency(w_text, w_max, w_pt)) =>
    Len(w_relines) = Len(w_lines)

\* C8 witness: such a text was wrapped into two or more lines, one of them
\* broken after a punctuation character, and re-wrapped.
C8_Witness ==
  /\ w_pc = "rewrapped"
  /\ SingleSpaced(w_text) /\ NoEmergency(w_text, w_max, w_pt)
  /\ Len(w_lines) >= 2
  /\ JoinSpaces(w_lines) # w_text
  /\ Len(w_relines) = Len(w_lines)

\* C9: wrap_text_lines never returns an empty list; for the empty string it
\* returns exactly one line, the empty string.
C9_NeverEmpty ==
  Wrapped =>
    /\ Len(w_lines) >= 1
    /\ w_text = <<>> => w_lines = << <<>> >>

\* C9 witness: the empty string was wrapped into one line, the empty string.
C9_Witness ==
  /\ Wrapped
  /\ w_text = <<>>
  /\ w_lines = << <<>> >>


\* ------------------------------------------------------------------------
\* Claims about paginate_services_wrapped, paginate_table and generate_pdf
\* ------------------------------------------------------------------------
RowFinished == pc \notin {"start", "svc_header", "svc_chunk"} /\ svc_i > 0

\* C1: the description lines drawn in the successive chunks of a row,
\* concatenated in drawing order, are the lines wrap_text_lines returned for
\* the row's description: during the row they are its first start_idx lines,
\* and when the row is finished they are all of them, each drawn once, also
\* when the row is split across page boundaries.
C1_ChunksAreWrappedLines ==
  /\ pc = "svc_chunk" => row_drawn = SubSeq(desc_lines, 1, start_idx)
  /\ RowFinished =>
       /\ row_drawn = WrappedDesc[font_size_pt][desc]
       /\ row_drawn = desc_lines

\* C1 witness: the last row of the table, of more lines than a page holds, has
\* been finished in three or more chunks
C1_Witness ==
  /\ pc = "svc_row"
  /\ svc_i = n_services
  /\ n_services > 1
  /\ passes >= 3
  /\ row_drawn = desc_lines
  /\ Len(desc_lines) > 50

IsHeader(e) == e.kind \in {"svc_header", "cost_header"}

\* the header of the table a row or chunk belongs to
HeaderOf(kind) == IF kind = "svc_chunk" THEN "svc_header" ELSE "cost_header"

\* C2: every page has a first element, and on every page after the first it
\* is a table header drawn at the page-top offset; a row or chunk drawn by
\* the statement that started the page follows the header of its own table,
\* directly below it on the same page.
C2_PagesBeginWithHeader ==
  /\ pc # "start" => Len(page_first) = page_no
  /\ \A p \in 2..Len(page_first) :
       /\ IsHeader(page_first[p])
       /\ page_first[p].top = TOP_MARGIN_MM
  /\ \A k \in 1..Len(drawn) :
       (drawn[k].kind \in {"svc_chunk", "cost_row"} /\ drawn[k].page > 1
          /\ page_first[drawn[k].page] \in {drawn[j] : j \in 1..Len(drawn)}) =>
         /\ k = 2
         /\ drawn[1].kind = HeaderOf(drawn[k].kind)
         /\ drawn[1].page = drawn[k].page
         /\ drawn[1].top = page_top_y(drawn[k].page, letterhead)
         /\ drawn[k].top = drawn[1].bottom

\* C2 witness: the services table and the costs table have each started a page
C2_Witness ==
  /\ pc = "done"
  /\ \E p \in 2..Len(page_first) : page_first[p].kind = "svc_header"
  /\ \E p \in 2..Len(page_first) : page_first[p].kind = "cost_header"

\* C3, as stated: every element drawn has its bottom edge at or above the
\* page height minus the bottom margin.
C3_AllInsideUsableArea ==
  \A k \in 1..Len(drawn) : drawn[k].bottom <= usable_bottom

\* one pass of the chunk loop
ChunkPass == pc = "svc_chunk" /\ passes' = passes + 1

\* C4: every pass of the chunk loop places at least one line, starts at most
\* one page and, after a new page, finds room for the minimum row height; a
\* row of n lines takes at most n passes; and generate_pdf reaches its end.
C4_RenderingTerminates ==
  /\ [][ChunkPass => /\ start_idx' > start_idx
                     /\ page_no' <= page_no + 1
                     /\ pass_fit'
                     /\ passes' <= start_idx'
                     /\ start_idx' <= Len(desc_lines)]_vars
  /\ <>(pc = "done")

\* C4 witness: a row of more than fifty lines was finished in three or more
\* passes, at most as many as it has lines, the last of which started a page
C4_Witness ==
  /\ pc = "svc_chunk"
  /\ start_idx = Len(desc_lines)
  /\ Len(desc_lines) > 50
  /\ pass_pages = 1
  /\ passes >= 3
  /\ passes <= Len(desc_lines)

\* ------------------------------------------------------------------------
\* Claims about the invoice totals
\* ------------------------------------------------------------------------
\* the sum of f[k] over the indices k in idx, in no particular order
RECURSIVE Sigma(_, _)
Sigma(idx, f) ==
  IF idx = {} THEN 0
  ELSE LET k == CHOOSE j \in idx : TRUE IN f[k] + Sigma(idx \ {k}, f)

SigmaHoursRate ==
  Sigma(DOMAIN invoice.services,
        [k \in DOMAIN invoice.services |->
           invoice.services[k].hours * invoice.services[k].rate])

SigmaQtyPrice ==
  Sigma(DOMAIN invoice.costs,
        [k \in DOMAIN invoice.costs |->
           invoice.costs[k].qty * invoice.costs[k].unit_price])

\* C10: whatever handlers have run, total_services() is the sum of hours x
\* rate over the current services, total_costs() the sum of qty x unit_price
\* over the current costs, grand_total() their sum, and the totals the wizard
\* shows are these values (rounded to cents for display only).
C10_TotalsRecomputed ==
  invoice.exists =>
    /\ total_services(invoice) = SigmaHoursRate
    /\ total_costs(invoice) = SigmaQtyPrice
    /\ grand_total(invoice) = SigmaHoursRate + SigmaQtyPrice
    /\ totals_lbl.svc_total = money2(SigmaHoursRate)
    /\ totals_lbl.cost_total = money2(SigmaQtyPrice)
    /\ totals_lbl.grand = money2(SigmaHoursRate + SigmaQtyPrice)

\* C10 witness: one service of 2.5 h at rate 100.00 and one cost of 3 x 20.00,
\* the quantity 3 set by an edit of the costs table: 250, 60 and 310
C10_Witness ==
  /\ invoice.exists
  /\ Len(invoice.services) = 1
  /\ invoice.services[1].hours = 25000 /\ invoice.services[1].rate = 10000
  /\ Len(invoice.costs) = 1
  /\ invoice.costs[1].qty = 3 * Q /\ invoice.costs[1].unit_price = 2000
  /\ total_services(invoice) = 250 * Q * 100
  /\ total_costs(invoice) = 60 * Q * 100
  /\ grand_total(invoice) = 310 * Q * 100
  /\ totals_lbl.grand = 310 * Q * 100

\* ------------------------------------------------------------------------
\* Claims about the Invoice object (SpecInvoice)
\* ------------------------------------------------------------------------
\* C11: a service item's rate is a snapshot: add_service stores the
\* invoice's default_rate of the moment of the call, and a later change of
\* default_rate changes neither the rate nor the amount of an earlier item.
C11_RateIsSnapshot ==
  [][ /\ (Len(invoice'.services) = Len(invoice.services) + 1) =>
           invoice'.services[Len(invoice'.services)].rate = invoice.default_rate
      /\ (invoice'.default_rate # invoice.default_rate) =>
           /\ invoice'.services = invoice.services
           /\ \A k \in 1..Len(invoice.services) :
                amount(invoice'.services[k]) = amount(invoice.services[k])
           /\ total_services(invoice') = total_services(invoice) ]_vars

\* C11 witness: an item added before default_rate was changed keeps the old
\* rate, the item added after the change has the new one.
C11_Witness ==
  /\ stack = "idle" /\ invoice.exists
  /\ Len(invoice.services) >= 2
  /\ invoice.services[1].rate # invoice.default_rate
  /\ invoice.services[2].rate = invoice.default_rate
  /\ amount(invoice.services[1]) = invoice.services[1].hours * invoice.services[1].rate


\* C12: when generate_pdf builds the rows of the services table, the rows
\* are the invoice's services, each once, in ascending date order, services
\* of equal date in insertion order; the stored list is not reordered.
C12_RowsSortedStable ==
  [][ BuildSvcRows =>
        /\ Len(svc_rows') = Len(invoice.services)
        /\ \E p \in [1..Len(invoice.services) -> 1..Len(invoice.services)] :
             /\ \A j, k \in DOMAIN p : j # k => p[j] # p[k]
             /\ \A k \in DOMAIN p : svc_rows'[k] = svc_row(invoice.services[p[k]])
             /\ \A j, k \in DOMAIN p :
                  j < k => \/ invoice.services[p[j]].date < invoice.services[p[k]].date
                           \/ /\ invoice.services[p[j]].date = invoice.services[p[k]].date
                              /\ p[j] < p[k]
        /\ invoice' = invoice ]_vars

\* C12 witness: three services stored out of date order, two of them of the
\* same date with different descriptions, and their rows built: the earlier
\* date first, the two of equal date in insertion order.
C12_Witness ==
  /\ stack = "idle" /\ invoice.exists
  /\ Len(invoice.services) = 3 /\ Len(svc_rows) = 3
  /\ invoice.services[1].date = 2 /\ invoice.services[2].date = 1
  /\ invoice.services[3].date = 2
  /\ invoice.services[1].desc # invoice.services[3].desc
  /\ svc_rows[1] = svc_row(invoice.services[2])
  /\ svc_rows[2] = svc_row(invoice.services[1])
  /\ svc_rows[3] = svc_row(invoice.services[3])

\* ------------------------------------------------------------------------
\* Claims about the wizard's validation (SpecWizard)
\* ------------------------------------------------------------------------
KeyOf(it) == _svc_key(it.date, it.desc, it.hours)

C14_OnlyValidData ==
  invoice.exists =>
    /\ \A k \in 1..Len(invoice.services) :
         /\ invoice.services[k].desc # <<>>
         /\ invoice.services[k].hours >= 0
    /\ \A k \in 1..Len(invoice.costs) :
         /\ invoice.costs[k].desc # <<>>
         /\ invoice.costs[k].qty >= 0
         /\ invoice.costs[k].unit_price >= 0

\* ------------------------------------------------------------------------
\* Claims about the page geometry of generate_pdf (Spec)
\* ------------------------------------------------------------------------
\* a length of in100 hundredths of an inch in millimetres: inches * 25.4
InchesInMm(in100) == in100 * 254 * (MM \div 1000)

\* C15: page_top_y is the configured letterhead top margin in millimetres
\* (inches * 25.4; 63.5 mm for the default 2.5 in) while the current page
\* is page 1, and the fixed top margin of 20 mm on every later page.
C15_PageTopY ==
  page_no >= 1 =>
    /\ page_no = 1 => page_top_y(page_no, letterhead) = InchesInMm(letterhead)
    /\ (page_no = 1 /\ letterhead = 250) =>
         page_top_y(page_no, letterhead) = (635 * MM) \div 10
    /\ page_no >= 2 => page_top_y(page_no, letterhead) = 20 * MM
    /\ \A p \in 1..Len(page_first) :
         page_first[p].top = IF p = 1 THEN InchesInMm(letterhead) ELSE 20 * MM

\* C15 witness: with the default letterhead of 2.5 in the document has
\* reached its third page; page 1 started at 63.5 mm, pages 2 and 3 at 20 mm.
C15_Witness ==
  /\ letterhead = 250
  /\ page_no = 3 /\ Len(page_first) = 3
  /\ page_first[1].top = (635 * MM) \div 10
  /\ page_first[2].top = 20 * MM
  /\ page_first[3].top = 20 * MM
  /\ page_top_y(page_no, letterhead) = 20 * MM

\* the elements the step draws on the page the cursor was on start at or
\* below the cursor, one below the other, and the cursor ends at or below
\* the last of them
CursorMovesDown ==
  /\ \A k \in 1..Len(drawn') :
       /\ drawn'[k].page = page_no => drawn'[k].top >= y
       /\ drawn'[k].bottom >= drawn'[k].top
       /\ \A j \in 1..(k - 1) :
            drawn'[j].page = drawn'[k].page => drawn'[j].bottom <= drawn'[k].top
       /\ drawn'[k].page = page_no' => y' >= drawn'[k].bottom
  /\ page_no' = page_no => y' >= y

\* C16: the letterhead band is reserved on page 1 only: nothing is drawn on
\* page 1 above the letterhead offset, the cursor never moves upward on a
\* page between drawn elements, and the first element of a page started by
\* a renderer is drawn at exactly 20 mm.
C16_LetterheadBand ==
  /\ [](\A k \in 1..Len(drawn) :
          drawn[k].page = 1 => drawn[k].top >= mm_from_inches(letterhead))
  /\ [][CursorMovesDown]_vars
  /\ [](\A p \in 2..Len(page_first) : page_first[p].top = 20 * MM)

\* C16 witness: a finished document with a 5 in letterhead whose first page
\* starts with the title at 127 mm and whose second page, started by the
\* services renderer, starts with the header at 20 mm.
C16_Witness ==
  /\ pc = "done" /\ letterhead = 500
  /\ Len(page_first) >= 2
  /\ page_first[1].kind = "title" /\ page_first[1].top = 127 * MM
  /\ page_first[2].kind = "svc_header" /\ page_first[2].top = 20 * MM

\* (services + 1 + costs + 1 + 6) * (0.35 * pt) is smaller than the
\* vertical space below the letterhead: page height - letterhead - 20 mm
RoughFit(n_svc, n_cost, pt) ==
  (n_svc + 1 + n_cost + 1 + 6) * 35 * pt * (MM \div 100)
    < (2794 * (MM \div 10)) - InchesInMm(letterhead) - 20 * MM

\* C17: the global font size is an integer point size in 10..14: the
\* largest size of that range that passes the rough fit, and 10 when no
\* size passes; an invoice with fewer items never gets a smaller size.
C17_FontSize ==
  pc \notin {"idle", "start"} =>
    /\ font_size_pt \in 10..14
    /\ \A q \in 10..14 : q > font_size_pt => ~RoughFit(n_services, n_costs, q)
    /\ \/ RoughFit(n_services, n_costs, font_size_pt)
       \/ /\ font_size_pt = 10
          /\ \A q \in 10..14 : ~RoughFit(n_services, n_costs, q)
    /\ pc = "svc_header" =>
         \A a \in 0..n_services, b \in 0..n_costs :
           chosen_pt(a, b, letterhead) >= font_size_pt

\* C17 witness: an invoice with so many items that no size passes the
\* rough fit is drawn at 10 pt, one item fewer would pass at 10 pt.
C17_Witness ==
  /\ pc = "svc_header"
  /\ font_size_pt = 10
  /\ \A q \in 10..14 : ~RoughFit(n_services, n_costs, q)
  /\ n_costs >= 1 /\ RoughFit(n_services, n_costs - 1, 10)

\* ------------------------------------------------------------------------
\* Claims about paginate_table (Spec)
\* ------------------------------------------------------------------------
\* what a step of the row loop of paginate_table has to do for the next row
RowOfTable ==
  LET row_h == (35 * font_size_pt * MM) \div 100
      break == y + row_h > (2794 * MM) \div 10 - 5 * MM
      top   == IF page_no + 1 = 1 THEN InchesInMm(letterhead) ELSE 20 * MM
  IN  /\ cost_j' = cost_j + 1
      /\ cost_j' <= n_costs
      /\ Cardinality({k \in 1..Len(drawn') : drawn'[k].kind = "cost_row"}) = 1
      /\ IF break
         THEN /\ page_no' = page_no + 1
              /\ Len(drawn') = 2
              /\ drawn'[1].kind = "cost_header" /\ drawn'[1].page = page_no + 1
              /\ drawn'[1].top = top /\ drawn'[1].bottom = top + row_h
              /\ drawn'[2].kind = "cost_row" /\ drawn'[2].page = page_no + 1
              /\ drawn'[2].top = top + row_h /\ drawn'[2].bottom = top + 2 * row_h
              /\ y' = top + 2 * row_h
         ELSE /\ page_no' = page_no
              /\ Len(drawn') = 1
              /\ drawn'[1].kind = "cost_row" /\ drawn'[1].page = page_no
              /\ drawn'[1].top = y /\ drawn'[1].bottom = y + row_h
              /\ y' = y + row_h

\* C18: paginate_table draws one body row per input row, in input order;
\* before a row it starts a new page exactly when the cursor plus one row
\* height exceeds page height minus the bottom margin, and then the header
\* is redrawn at the page-top offset and the row drawn below it.
C18_TableRows ==
  /\ [][ /\ CostsRow => RowOfTable
         /\ cost_j' # cost_j => CostsRow
         /\ (\E k \in 1..Len(drawn') : drawn'[k].kind = "cost_row") => CostsRow ]_vars
  /\ [](pc \in {"grand_total", "output", "done"} => cost_j = n_costs)

\* C18 witness: the row loop has just started a page: the header is at
\* 20 mm on the new page and the row, not the first of the table, below it.
C18_Witness ==
  /\ pc = "cost_row" /\ cost_j >= 2 /\ page_no >= 2
  /\ Len(drawn) = 2
  /\ drawn[1].kind = "cost_header" /\ drawn[1].page = page_no
  /\ drawn[1].top = 20 * MM
  /\ drawn[2].kind = "cost_row" /\ drawn[2].page = page_no
  /\ drawn[2].top = drawn[1].bottom

\* ------------------------------------------------------------------------
\* Claims about the cells of paginate_table (SpecTable)
\* ------------------------------------------------------------------------
\* the width limit of column k in mm: column_width - 2
CellLimit(k) == <<cost_col_w[k] \div MM - 2, 1>>

\* the text of cell k is wider than the limit at the base font size
WideAtBase(k) == FracLess(CellLimit(k), cell_width(t_row[k], SizeOfPt(t_base)))

\* C19: a cell whose text is wider than column_width - 2 at the base font
\* size is drawn at a smaller size, not below the minimum size, at which
\* the text fits (or at the minimum size); every other cell is drawn at the
\* base size, and the base size is set again after the row.
C19_CellShrink ==
  t_pc = "drawn" =>
    /\ Len(t_sizes) = Len(t_row)
    /\ t_font = SizeOfPt(t_base)
    /\ \A k \in 1..Len(t_row) :
         /\ ~FracLess(t_sizes[k], SizeOfPt(MIN_FONT_PT))
         /\ ~FracLess(SizeOfPt(t_base), t_sizes[k])
         /\ IF WideAtBase(k)
            THEN \/ t_sizes[k] = SizeOfPt(MIN_FONT_PT)
                 \/ ~FracLess(CellLimit(k), cell_width(t_row[k], t_sizes[k]))
            ELSE t_sizes[k] = SizeOfPt(t_base)

\* ------------------------------------------------------------------------
\* Claims about the row shading (Spec)
\* ------------------------------------------------------------------------
\* C20: row shading alternates once per logical row in both renderers: the
\* first body row is filled, the next is not, and so on; all chunks of a
\* split services row have the fill of their row, and a page break with
\* its header redraw neither resets nor toggles the fill.
C20_FillAlternates ==
  /\ \A k \in 1..Len(drawn) :
       /\ drawn[k].kind = "svc_chunk" => drawn[k].fill = (svc_i % 2 = 0)
       /\ drawn[k].kind = "cost_row" => drawn[k].fill = (cost_j % 2 = 1)
  /\ pc = "svc_chunk" => fill = (svc_i % 2 = 0)
  /\ pc = "cost_row" => fill = (cost_j % 2 = 0)

\* C20 witness: the second services row, not filled, is split; the pass
\* just made started a page, redrew the header and drew an unfilled chunk.
C20_Witness ==
  /\ pc = "svc_chunk" /\ svc_i = 1
  /\ passes >= 2 /\ pass_pages = 1
  /\ Len(drawn) = 2
  /\ drawn[1].kind = "svc_header"
  /\ drawn[2].kind = "svc_chunk" /\ drawn[2].fill = FALSE
  /\ fill = FALSE

\* ------------------------------------------------------------------------
\* Claims about file names and the export directory
\* ------------------------------------------------------------------------
\* the file name export_pdf starts from
BaseName == default_pdf_filename(template, client_name, invoice_date)

\* C21: when writing the output file fails at any point, generate_pdf
\* raises once, export_pdf shows the error box and not the saved dialog, and
\* no file, whole or partial, is left at the target path: after a failure
\* the target path does not exist, and the saved dialog is shown only over a
\* whole document.
C21_FailedExportLeavesNoFile ==
  /\ e_pc = "raised" => outfile \notin DOMAIN files
  /\ \A f \in DOMAIN files : files[f] # "partial"
  /\ (e_pc = "review" /\ dialog = "PDF saved") =>
        (outfile \in DOMAIN files /\ files[outfile] = "pdf")
  /\ (e_pc = "review" /\ dialog = "Error") =>
        ~(outfile \in DOMAIN files /\ files[outfile] = "pdf")

\* the characters of s that are neither a space nor an underscore
Solid(s) == SelectSeq(s, LAMBDA c : c \notin {" ", "_"})

CountOf(s, ch) == Cardinality({i \in 1..Len(s) : s[i] = ch})

\* the runs of spaces of s
SpaceRuns(s) ==
  Cardinality({i \in 1..Len(s) : s[i] = " " /\ (i = 1 \/ s[i - 1] # " ")})

ExampleClient == <<"O", "'", "B", "r", "i", "e", "n", " ", "&", " ", "S", "o", "n", "s", ",", " ", "L", "t", "d", ".">>

ExampleDate == <<"0", "3", "/", "0", "7", "/", "2", "0", "2", "5">>

ExampleFileName == <<"O", "B", "r", "i", "e", "n", "_", "S", "o", "n", "s", "_", "L", "t", "d", "_", "i", "n", "v", "o", "i", "c", "e", "[", "0", "3", "-", "0", "7", "-", "2", "0", "2", "5", "]", ".", "p", "d", "f">>

\* C23: sanitize_client keeps the letters, digits, spaces, underscores and
\* dashes of the name in their order, trims, and writes one underscore for
\* every run of spaces, so its result holds no space and no other
\* character, and sanitizing the result gives the result; the date of the
\* file name is the invoice date with every "/" replaced by "-"; with the
\* default template the file name is <client>_invoice[<date>].pdf
\* (OBrien_Sons_Ltd_invoice[03-07-2025].pdf for "O'Brien & Sons, Ltd." and
\* 03/07/2025), and a template that cannot be formatted gives that name too.
C23_FileName ==
  LET kept == strip(SelectSeq(client_name, LAMBDA c : c \in AllowedChars))
      c == sanitize_client(client_name)
      d == date_for_filename(invoice_date)
  IN  /\ \A i \in 1..Len(c) : c[i] \in AllowedChars \ {" "}
      /\ Solid(c) = Solid(kept)
      /\ CountOf(c, "_") = CountOf(kept, "_") + SpaceRuns(kept)
      /\ Len(c) = Len(kept) - CountOf(kept, " ") + SpaceRuns(kept)
      /\ sanitize_client(c) = c
      /\ Len(d) = Len(invoice_date)
      /\ \A i \in 1..Len(d) : d[i] = IF invoice_date[i] = "/" THEN "-" ELSE invoice_date[i]
      /\ template = DefaultTemplate => BaseName = c \o <<"_", "i", "n", "v", "o", "i", "c", "e", "[">> \o d \o <<"]", ".", "p", "d", "f">>
      /\ ~format(template, 1, <<>>, c, d).ok => BaseName = c \o <<"_", "i", "n", "v", "o", "i", "c", "e", "[">> \o d \o <<"]", ".", "p", "d", "f">>
      /\ (client_name = ExampleClient /\ invoice_date = ExampleDate
            /\ template = DefaultTemplate) => BaseName = ExampleFileName
      /\ (e_pc = "generate" /\ BaseName \notin DOMAIN files /\ HasSuffix(BaseName))
            => outfile = BaseName

\* export_pdf hands the file name of the example to generate_pdf
C23_Witness ==
  /\ e_pc = "generate"
  /\ client_name = ExampleClient
  /\ template = DefaultTemplate
  /\ outfile = ExampleFileName

\* export_pdf falls back to the default pattern for a template it cannot format
C23_WitnessFallback ==
  /\ e_pc = "generate"
  /\ ~format(template, 1, <<>>, sanitize_client(client_name),
             date_for_filename(invoice_date)).ok
  /\ outfile = sanitize_client(client_name) \o <<"_", "i", "n", "v", "o", "i", "c", "e", "[">>
                 \o date_for_filename(invoice_date) \o <<"]", ".", "p", "d", "f">>

\* what pdf.output does to the directory in one step: it creates a file
\* that was not there, and leaves every other file as it was
CreatesFreshFile ==
  (files' # files) =>
     /\ outfile \notin DOMAIN files
     /\ outfile \notin written
     /\ written' = written \cup {outfile}
     /\ DOMAIN files' = DOMAIN files \cup {outfile}
     /\ \A f \in DOMAIN files : files'[f] = files[f]

\* uniquify_path(first) is free, is first when first is free, and else is
\* the " (n)" name of p for the smallest free n >= 1
FreshPathFrom(p, first) ==
  e_pc = "generate" =>
     /\ outfile \notin DOMAIN files
     /\ first \notin DOMAIN files => outfile = first
     /\ first \in DOMAIN files =>
          \E n \in 1..(Cardinality(DOMAIN files) + 1) :
             /\ outfile = stem(p) \o <<" ", "(">> \o str(n) \o <<")">> \o suffix_or_pdf(p)
             /\ \A k \in 1..(n - 1) : Candidate(p, k) \in DOMAIN files

\* C24 as stated: uniquify_path returns a path that does not exist, the
\* given path itself when it is free and otherwise the path with " (n)"
\* before the extension for the smallest free n >= 1; the exports of one
\* invoice write to pairwise distinct paths and overwrite no older file.
C24_Original ==
  /\ [](FreshPathFrom(BaseName, BaseName))
  /\ [][CreatesFreshFile]_vars

\* C24, amended: the first path tried is the given path when it has an
\* extension and the given path with ".pdf" appended when it has none;
\* uniquify_path returns that path when it is free and otherwise the name
\* with " (n)" before the extension for the smallest free n >= 1, a path
\* that does not exist; the exports of one invoice write to pairwise
\* distinct paths and overwrite no older file.
C24_FreshPath ==
  /\ [](/\ FreshPathFrom(BaseName, Candidate(BaseName, 0))
        /\ HasSuffix(BaseName) => Candidate(BaseName, 0) = BaseName
        /\ ~HasSuffix(BaseName) => Candidate(BaseName, 0) = BaseName \o <<".", "p", "d", "f">>)
  /\ [][CreatesFreshFile]_vars

\* two exports into a directory that held the first name and its " (2)"
\* copy: they wrote the " (1)" and the " (3)" copy, and the old files are
\* as they were
C24_Witness ==
  /\ written = {Candidate(BaseName, 1), Candidate(BaseName, 3)}
  /\ files[Candidate(BaseName, 0)] = "old"
  /\ files[Candidate(BaseName, 2)] = "old"

\* ------------------------------------------------------------------------
\* Claims about the settings module
\* ------------------------------------------------------------------------
\* the default handed to get() by the formulas: a value no setting has
Missing == Value("missing", 0, "", {})

MarginPath == <<"letterhead", "top_margin_in">>

\* a call has ended and no other call was made since
Ended(op) == s_pc = "idle" /\ s_call.op = op

\* load_settings on a file that exists never raises, and gives the defaults
\* when the file is no JSON object or cannot be migrated
LoadNeverFails ==
  (Ended("load_settings") /\ disk.kind # "absent") =>
     /\ ~s_ret.raised
     /\ (disk.kind = "garbage" \/ ~IsDict(disk.val) \/ ~_migrate(disk.val).ok)
          => s_ret.val = DEFAULTS

\* letterhead_margin_in gives the stored number, and 2.5 when the setting
\* is missing or is no number
MarginIsNumberOrDefault ==
  Ended("letterhead_margin_in") =>
     LET x == get(cache, MarginPath, Missing)
     IN  s_ret.val = IF x.t \in {"float", "int"} THEN PyFloat(float_of(x).val)
                     ELSE PyFloat(250)

\* C22: a corrupt or unreadable settings store is never a hard failure:
\* load_settings returns the defaults without raising and without writing
\* the bad file, and letterhead_margin_in returns 2.5 whenever the stored
\* value is missing or not a number.
C22_CorruptStoreIsNotFatal ==
  /\ [](LoadNeverFails /\ MarginIsNumberOrDefault)
  /\ [][(s_pc = "idle" /\ s_call'.op = "load_settings" /\ disk.kind # "absent")
          => disk' = disk]_vars

\* C26: settings write/read round trip: after set_(path, value) has
\* returned, get(path, default) gives value from the cached settings, and
\* gives value again after the settings file was loaded anew.
C26_RoundTrip ==
  (Ended("set_") /\ ~s_ret.raised) =>
     /\ get(cache, s_call.path, Missing) = s_call.value
     /\ ~LoadFrom(disk).raised
     /\ get(LoadFrom(disk).cache, s_call.path, Missing) = s_call.value

RECURSIVE KeyPaths(_)
KeyPaths(x) ==
  IF ~IsDict(x) THEN {}
  ELSE UNION {{<<k>>} \cup {<<k>> \o p : p \in KeyPaths(Item(x, k))} : k \in Keys(x)}

HasPath(x, p) == get(x, p, Missing) # Missing

\* the key paths of x that end in a value that is no dict
LeafPaths(x) == {p \in KeyPaths(x) : ~IsDict(get(x, p, Missing))}

\* the dicts _migrate is applied to next in this state: the stored file by
\* load_settings when nothing is cached, data by save_settings
MigrateInputs ==
  {x \in (IF s_pc = "save" THEN {s_data} ELSE {})
           \cup (IF cache = NoCache /\ disk.kind = "json" THEN {disk.val} ELSE {}) :
     IsDict(x) /\ _migrate(x).ok}

\* every stored value but the version is kept, and the version is current
StoredSideWins(x, r) ==
  /\ \A p \in KeyPaths(x) : HasPath(r, p)
  /\ \A p \in LeafPaths(x) : p # <<"version">> => get(r, p, Missing) = get(x, p, Missing)
  /\ get(r, <<"version">>, Missing) = get(DEFAULTS, <<"version">>, Missing)

Blocked(x, p) ==
  \E n \in 1..(Len(p) - 1) :
     HasPath(x, SubSeq(p, 1, n)) /\ ~IsDict(get(x, SubSeq(p, 1, n), Missing))

ValidMeta(name, rate, date_text) ==
  strip(name) # <<>> /\ rate > 0 /\ parse_user_date(date_text).ok

\* no invoice, both tables empty, the meta page shown
Discarded ==
  invoice = None /\ s_table = <<>> /\ c_table = <<>> /\ stack = "meta"

HasItems == invoice.exists /\ (invoice.services # <<>> \/ invoice.costs # <<>>)

\* C25: an invoice exists only between confirming the metadata and
\* discarding it: there is an invoice exactly when a page other than the meta
\* page is shown; go_services creates a fresh invoice with no services and no
\* costs when name, rate and date are valid and changes nothing otherwise,
\* and nothing else creates one; start_new_invoice and a confirmed
\* confirm_reset_to_meta leave no invoice, empty tables and the meta page;
\* answering No to the discard question changes nothing.
C25_InvoiceLifecycle ==
  /\ [](/\ invoice.exists <=> stack # "meta"
        /\ stack = "meta" => Discarded)
  /\ [][/\ \A name \in NameTexts, rate \in RateValues, date_text \in MetaDateTexts :
            go_services(name, rate, date_text) =>
              IF ValidMeta(name, rate, date_text)
              THEN /\ invoice' = Invoice(rate)
                   /\ invoice'.services = <<>> /\ invoice'.costs = <<>>
                   /\ stack' = "services"
              ELSE UNCHANGED wizVars
        /\ (~invoice.exists /\ invoice'.exists) =>
              \E name \in NameTexts, rate \in RateValues, date_text \in MetaDateTexts :
                 ValidMeta(name, rate, date_text) /\ go_services(name, rate, date_text)
        /\ (start_new_invoice \/ confirm_reset_to_meta(TRUE)) => Discarded'
        /\ (confirm_reset_to_meta(FALSE) /\ HasItems) => UNCHANGED wizVars
        /\ (invoice.exists /\ ~invoice'.exists) => Discarded']_vars

\* an invoice with services was discarded: the meta page is shown, there is
\* no invoice, both tables are empty, and the totals label still shows the
\* hours of the discarded invoice
C25_Witness ==
  /\ Discarded
  /\ totals_lbl.hours_sum # 0

\* ------------------------------------------------------------------------
\* Claims about the chunks of a services row
\* ------------------------------------------------------------------------
\* C29: each chunk is as large as the page allows and never larger. A pass
\* starts a page exactly when the space between the cursor and the usable
\* bottom is smaller than one line height plus top and bottom padding, and
\* then draws below the redrawn header of the new page. With avail the space
\* between the top of the chunk and the usable bottom, the chunk holds
\* k = min(unplaced lines, floor((avail - 2 padding) / line height)) >= 1
\* lines, its height is padding + k * line height + padding <= avail, one
\* more line would not fit unless no line is left, and the cursor ends at
\* the bottom of the chunk.
C29_ChunkSize ==
  [][ChunkPass =>
       LET row_h    == ln_height_mm(font_size_pt)
           min_h    == row_h + 2 * ROW_PAD_MM
           newpage  == page_no' # page_no
           chunk    == drawn'[Len(drawn')]
           avail    == usable_bottom - chunk.top
           unplaced == Len(desc_lines) - start_idx
           k        == start_idx' - start_idx
           height   == chunk.bottom - chunk.top
       IN  /\ newpage <=> usable_bottom - y < min_h
           /\ chunk.kind = "svc_chunk" /\ chunk.page = page_no'
           /\ IF newpage
              THEN /\ page_no' = page_no + 1
                   /\ Len(drawn') = 2 /\ drawn'[1].kind = "svc_header"
                   /\ chunk.top = drawn'[1].bottom
              ELSE /\ Len(drawn') = 1
                   /\ chunk.top = y
           /\ k = Min(unplaced, (avail - 2 * ROW_PAD_MM) \div row_h)
           /\ k >= 1
           /\ height = ROW_PAD_MM + k * row_h + ROW_PAD_MM
           /\ height <= avail
           /\ k < unplaced => height + row_h > avail
           /\ y' = chunk.top + height]_vars

\* C29 witness: a chunk that is not the last of its row filled the page
\* from the cursor down: lines are left and no further line fits below it
C29_Witness ==
  /\ pc = "svc_chunk"
  /\ passes >= 1 /\ pass_pages = 0
  /\ start_idx < Len(desc_lines)
  /\ Len(drawn) = 1 /\ drawn[1].kind = "svc_chunk"
  /\ drawn[1].bottom = y
  /\ drawn[1].bottom - drawn[1].top > 3 * ROW_PAD_MM
  /\ usable_bottom - y < ln_height_mm(font_size_pt) + 2 * ROW_PAD_MM

\* the single-line text t stands in the middle of the height of element e
Centred(t, e) == t.y - e.top = e.bottom - (t.y + t.h)

\* the boxes of element e are the five cells of the services table, side by
\* side from the left margin, each as high as e, with a border
FiveBoxes(e) ==
  /\ Len(e.cells.boxes) = 5
  /\ \A c \in 1..5 :
       LET b == e.cells.boxes[c]
       IN  /\ b.border = 1
           /\ b.y = e.top /\ b.h = e.bottom - e.top
           /\ b.w = svc_col_w[c]
           /\ b.x = IF c = 1 THEN LEFT_MARGIN_MM
                    ELSE e.cells.boxes[c - 1].x + e.cells.boxes[c - 1].w

\* the date, hours, rate and amount of row i are set in e, each in its
\* column and in the middle of the height of e
FourTexts(e, i) ==
  /\ Len(e.cells.texts) = 4
  /\ e.cells.texts[1].text = RowTexts(i).date
  /\ e.cells.texts[2].text = RowTexts(i).hrs
  /\ e.cells.texts[3].text = RowTexts(i).rate
  /\ e.cells.texts[4].text = RowTexts(i).amt
  /\ \A n \in 1..4 :
       LET t == e.cells.texts[n]
           c == IF n = 1 THEN 1 ELSE n + 1
       IN  /\ t.text # <<>>
           /\ t.x = e.cells.boxes[c].x /\ t.w = e.cells.boxes[c].w
           /\ t.h = ln_height_mm(font_size_pt)
           /\ Centred(t, e)

\* C30: every chunk of a services row, the first one and each continuation
\* chunk on a later page alike, draws all five cell borders and shows the
\* date, hours, rate and amount of the row in the middle of the height of
\* the chunk; the texts are never blank on a continuation chunk.
C30_ChunkCells ==
  \A k \in 1..Len(drawn) :
     drawn[k].kind = "svc_chunk" =>
        /\ FiveBoxes(drawn[k])
        /\ FourTexts(drawn[k], svc_i)

\* C30 witness: a continuation chunk of more than one line, drawn on a new
\* page below the redrawn header, with its five boxes and the four texts
\* of its row
C30_Witness ==
  /\ pc = "svc_chunk"
  /\ passes >= 2 /\ pass_pages = 1
  /\ Len(drawn) = 2 /\ drawn[2].kind = "svc_chunk"
  /\ drawn[2].page >= 2
  /\ drawn[2].bottom - drawn[2].top > ln_height_mm(font_size_pt) + 2 * ROW_PAD_MM
  /\ FiveBoxes(drawn[2])
  /\ FourTexts(drawn[2], svc_i)

\* ------------------------------------------------------------------------
\* Claims about tokens and lines
\* ------------------------------------------------------------------------
\* the number of characters of the first n sequences of ls that are no
\* whitespace
RECURSIVE InkBefore(_, _)
InkBefore(ls, n) ==
  IF n = 0 THEN 0 ELSE InkBefore(ls, n - 1) + Len(NoSpace(ls[n]))

\* the token is no run of whitespace
IsInk(tok) == NoSpace(tok) # <<>>

\* token k of tokens is divided between two of the lines: a line ends
\* after one of its characters and before its last one (the characters that
\* are no whitespace are the same in the text and in the lines, in order)
Divided(tokens, k, lines) ==
  \E j \in 1..(Len(lines) - 1) :
     /\ InkBefore(tokens, k - 1) < InkBefore(lines, j)
     /\ InkBefore(lines, j) < InkBefore(tokens, k)

\* C31: the character-level emergency split is applied only to a token that
\* alone is wider than the column: a token whose own width is at most
\* max_width - 0.5 is never divided between two lines.
C31_FittingTokenIsWhole ==
  Wrapped =>
    LET tokens == re_split(w_text)
    IN  /\ InkBefore(tokens, Len(tokens)) = InkBefore(w_lines, Len(w_lines))
        /\ \A k \in 1..Len(tokens) :
             (IsInk(tokens[k]) /\ ~too_wide(tokens[k], w_max, w_pt))
                => ~Divided(tokens, k, w_lines)

\* C31 witness: a token of two or more characters that fits on a line of
\* its own did not fit behind the text before it and starts a new line,
\* while another token of the same text, too wide for a line, was divided
C31_Witness ==
  /\ Wrapped
  /\ LET tokens == re_split(w_text)
     IN  /\ \E k \in 1..Len(tokens) :
              /\ Len(tokens[k]) >= 2 /\ IsInk(tokens[k])
              /\ ~too_wide(tokens[k], w_max, w_pt)
              /\ \E j \in 1..(Len(w_lines) - 1) :
                   InkBefore(w_lines, j) = InkBefore(tokens, k - 1)
         /\ \E k \in 1..Len(tokens) :
              /\ too_wide(tokens[k], w_max, w_pt)
              /\ Divided(tokens, k, w_lines)

\* ------------------------------------------------------------------------
\* Claims about the explicit zero of the hours field
\* ------------------------------------------------------------------------
\* this step appended a service to the invoice
ServiceAdded ==
  /\ invoice.exists /\ invoice'.exists
  /\ Len(invoice'.services) = Len(invoice.services) + 1
  /\ SubSeq(invoice'.services, 1, Len(invoice.services)) = invoice.services

\* this step is add_service after the user typed into the hours field
TypedAdd ==
  \E d \in SDescTexts, date_text \in SDateTexts, hours_in \in HoursInputs :
     hours_in.mode = "typed" /\ add_service(d, date_text, hours_in)

\* this step is add_service on an entry that passes the checks of the
\* fields and has the key of a service of the invoice
DuplicateAdd ==
  \E d \in SDescTexts, date_text \in SDateTexts, hours_in \in HoursInputs :
     LET hrs == IF hours_in.mode = "untouched" THEN s_hours ELSE hours_in.val
     IN  /\ add_service(d, date_text, hours_in)
         /\ strip(d) # <<>>
         /\ parse_user_date(date_text).ok
         /\ ~(require_explicit_zero /\ hrs = 0
               /\ ~(hours_dirty \/ hours_in.mode = "typed"))
         /\ HasKey(invoice.services,
                   _svc_key(parse_user_date(date_text).date,
                            normalize_desc(strip(d)), hrs), 0)

\* this step is add_service with the hours field left as it is
UntouchedAdd ==
  \E d \in SDescTexts, date_text \in SDateTexts :
     add_service(d, date_text, [mode |-> "untouched", val |-> 0])

\* C32: with require_explicit_zero on, a service with hours 0 is added only
\* when the hours field was typed into or prefilled from the last service
\* since the form was last cleared: the flag is set by typing and by the
\* prefill only, a service of 0 hours is added only with the flag set or
\* typed hours, the flag is reset by every add that succeeds, every
\* duplicate rejection and every Clear, and an add with an untouched 0 and
\* the flag reset changes nothing.
C32_ExplicitZero ==
  [][/\ (ServiceAdded /\ require_explicit_zero
           /\ invoice'.services[Len(invoice'.services)].hours = 0)
          => (hours_dirty \/ TypedAdd)
     /\ (hours_dirty' /\ ~hours_dirty) => (prefill_last_service \/ TypedAdd)
     /\ ServiceAdded => (~hours_dirty' /\ s_hours' = 0)
     /\ DuplicateAdd => (~hours_dirty' /\ s_hours' = 0 /\ invoice' = invoice)
     /\ clear_service_form => (~hours_dirty' /\ s_hours' = 0)
     /\ (UntouchedAdd /\ require_explicit_zero /\ ~hours_dirty /\ s_hours = 0)
          => UNCHANGED wizVars]_vars

\* C32 witness: with require_explicit_zero on, the last service of the
\* invoice has 0 hours, a second service was added after it was, and the
\* form is cleared: the flag is reset and the hours field shows 0
C32_Witness ==
  /\ stack = "services"
  /\ require_explicit_zero
  /\ invoice.exists /\ Len(invoice.services) = 2
  /\ invoice.services[1].hours = 0
  /\ s_table[1].hours = fmt2(0, Q)
  /\ ~hours_dirty /\ s_hours = 0

\* ------------------------------------------------------------------------
\* Claims about rejected entries and edits
\* ------------------------------------------------------------------------
\* the invoice, its items, the totals label and both tables are as before
InvoiceUntouched == UNCHANGED <<invoice, totals_lbl, s_table, c_table>>

\* add_service on an entry it has to reject: empty description, date that
\* does not parse, hours 0 not given explicitly, or the key of a service
\* of the invoice
RejectedAddService ==
  \E d \in SDescTexts, date_text \in SDateTexts, hours_in \in HoursInputs :
     LET hrs == IF hours_in.mode = "untouched" THEN s_hours ELSE hours_in.val
     IN  /\ add_service(d, date_text, hours_in)
         /\ \/ strip(d) = <<>>
            \/ ~parse_user_date(date_text).ok
            \/ (require_explicit_zero /\ hrs = 0
                  /\ ~(hours_dirty \/ hours_in.mode = "typed"))
            \/ HasKey(invoice.services,
                      _svc_key(parse_user_date(date_text).date,
                               normalize_desc(strip(d)), hrs), 0)

\* add_cost on an entry it has to reject
RejectedAddCost ==
  \E d \in CDescTexts, qty \in QtyValues, price \in PriceValues :
     add_cost(d, qty, price) /\ (strip(d) = <<>> \/ qty < 0 \/ price < 0)

\* an edit of a cell of the services table that has to be rejected: a date
\* that does not parse, hours that are no number or negative, or a value
\* that gives the row the key of another service; the cell then shows the
\* stored value again
RejectedServiceEdit ==
  \E row \in 0..(MaxSvcItems - 1), col \in 0..2 :
     \E text \in ServiceCellTexts(col) :
        /\ on_service_item_changed(row, col, text)
        /\ invoice.exists /\ row < Len(invoice.services)
        /\ LET svc == invoice.services[row + 1]
               bad == \/ col = 0 /\ ~parse_user_date(text).ok
                      \/ col = 2 /\ (~float(text).ok \/ float(text).val < 0)
               key == CASE col = 0 -> _svc_key(parse_user_date(text).date, svc.desc, svc.hours)
                        [] col = 1 -> _svc_key(svc.date, normalize_desc(text), svc.hours)
                        [] col = 2 -> _svc_key(svc.date, svc.desc, float(text).val)
           IN  bad \/ HasKey(invoice.services, key, row + 1)

RejectedCostEdit ==
  \E row \in 0..(MaxCostItems - 1), col \in 1..2 :
     \E text \in CostCellTexts(col) :
        /\ on_cost_item_changed(row, col, text)
        /\ invoice.exists /\ row < Len(invoice.costs)
        /\ (~float(text).ok \/ float(text).val < 0)

\* C33: a rejected entry or edit leaves the invoice unchanged: when
\* add_service or add_cost rejects its input, or an edit of a table cell is
\* rejected, the services and costs, the fields of every item and the
\* totals are as before, and the tables show the stored values: the edited
\* cell is restored.
C33_RejectionChangesNothing ==
  /\ [][(RejectedAddService \/ RejectedAddCost \/ RejectedServiceEdit \/ RejectedCostEdit)
          => InvoiceUntouched]_vars
  /\ [][\A row \in 0..(MaxSvcItems - 1), col \in 0..2 :
          \A text \in ServiceCellTexts(col) :
            (on_service_item_changed(row, col, text) /\ RejectedServiceEdit) =>
               s_table' = SetCell(s_table, row, ServiceField(col),
                                  ServiceRow(invoice.services[row + 1])[ServiceField(col)])]_vars
  /\ [][\A row \in 0..(MaxCostItems - 1), col \in 1..2 :
          \A text \in CostCellTexts(col) :
            (on_cost_item_changed(row, col, text) /\ RejectedCostEdit) =>
               c_table' = SetCell(c_table, row, CostField(col),
                                  CostRow(invoice.costs[row + 1])[CostField(col)])]_vars

\* C33 witness: add_service has rejected an entry with typed hours: the
\* hours field still holds the typed value, which is not the hours of the
\* last service, and the invoice, its totals and the table are those of the
\* one service added before
C33_Witness ==
  /\ stack = "services"
  /\ hours_dirty /\ s_hours # 0
  /\ invoice.exists /\ Len(invoice.services) = 1
  /\ invoice.services[1].hours = 0
  /\ s_table = <<ServiceRow(invoice.services[1])>>
  /\ totals_lbl = update_totals_labels(invoice, totals_lbl)

\* ------------------------------------------------------------------------
\* Claims about the money texts of the document
\* ------------------------------------------------------------------------
\* the text holds a thousands separator
HasSeparator(t) == \E i \in 1..Len(t) : t[i] = ","

\* the money texts of a document
MoneyTextsOf(doc) ==
  {doc.rates[k] : k \in DOMAIN doc.rates} \cup {doc.amounts[k] : k \in DOMAIN doc.amounts}
    \cup {doc.prices[k] : k \in DOMAIN doc.prices}
    \cup {doc.totals[k] : k \in DOMAIN doc.totals}
    \cup {doc.svc_total, doc.cost_total, doc.grand_total}

\* C34: the exported document honours the setting pdf.thousand_separators:
\* the money texts hold thousands separators when the setting is true and
\* none when it is false.
C34_HonoursThousandSeparators ==
  e_pc = "written" =>
     /\ ~thousand_separators => \A t \in MoneyTextsOf(doc_money) : ~HasSeparator(t)
     /\ doc_money.grand_total =
          IF thousand_separators THEN grouped_2f(CentsOf(grand_total(invoice)))
          ELSE plain_2f(CentsOf(grand_total(invoice)))

\* ------------------------------------------------------------------------
\* Claims about the invoice and the pages
\* ------------------------------------------------------------------------
WizardPages == {"meta", "services", "costs", "review"}

\* C35: in every reachable state of the wizard the invoice is not None
\* whenever the services, costs or review page is the current page, and it
\* is None only while the meta page is shown; no handler reads or mutates a
\* None invoice: while there is none, a step leaves it None or is the
\* go_services that creates it, and neither table nor the totals change
\* before it exists.
C35_InvoiceOnEveryItemPage ==
  /\ [](/\ stack \in WizardPages
        /\ stack \in {"services", "costs", "review"} => (invoice.exists /\ invoice # None)
        /\ ~invoice.exists => (stack = "meta" /\ invoice = None))
  /\ [][~invoice.exists =>
          \/ UNCHANGED <<invoice, stack, s_table, c_table, totals_lbl>>
          \/ /\ stack' = "services"
             /\ \E rate \in RateValues : invoice' = Invoice(rate)
             /\ UNCHANGED <<s_table, c_table>>]_vars

\* C35 witness: the review page of an invoice with a service and a cost
C35_Witness ==
  /\ stack = "review"
  /\ invoice.exists /\ invoice # None
  /\ invoice.services # <<>> /\ invoice.costs # <<>>

\* ------------------------------------------------------------------------
\* Claims about the entry tables
\* ------------------------------------------------------------------------
\* the rows the tables show for the items of an invoice, in list order
ServiceRowsOf(inv) == [k \in 1..Len(inv.services) |-> ServiceRow(inv.services[k])]

CostRowsOf(inv) == [k \in 1..Len(inv.costs) |-> CostRow(inv.costs[k])]

\* the sequences differ at index i at most
SameButAt(xs, ys, i) ==
  Len(xs) = Len(ys) /\ \A k \in 1..Len(xs) : k # i => xs[k] = ys[k]

DefaultsAsWritten == defaults = DEFAULTS

\* no section of the loaded settings is a dict of DEFAULTS itself
NothingShared == shared = {}

\* C37: DEFAULTS is immutable in practice: whatever the settings file holds
\* and whatever load_settings, get, set_ and save_settings calls are made,
\* no value inside DEFAULTS changes, and the loaded settings share no nested
\* dictionary with DEFAULTS.
C37_DefaultsImmutable == [](DefaultsAsWritten /\ NothingShared)

\* save_settings, called by set_, ends with an exception of mkstemp, of
\* json.dump or of os.replace in this step
SetWriteFails ==
  /\ s_call.op = "set_"
  /\ \/ s_pc = "save" /\ _migrate_in(s_data, defaults).ok
     \/ s_pc = "finally" /\ s_exc
  /\ s_pc' = "idle"
  /\ s_ret'.raised

\* C38: a failed settings write leaves the settings in memory unchanged:
\* when set_(path, value) raises because save_settings cannot write the
\* file, get(path) returns afterwards what it returned before the call.
C38_FailedWriteKeepsCache ==
  [][SetWriteFails => get(cache', s_call.path, PyNone) = s_before]_vars

\* ------------------------------------------------------------------------
\* Claims about the wizard and the Settings page
\* ------------------------------------------------------------------------
\* C39: the wizard's explicit-zero rule follows the setting: whenever
\* add_service runs, require_explicit_zero equals the current value of
\* invoice.require_explicit_zero_hours, also when the value was changed on
\* the Settings page after the wizard was created.
C39_RuleFollowsSetting ==
  [][\A d \in SDescTexts, date_text \in SDateTexts, hours_in \in HoursInputs :
       add_service(d, date_text, hours_in) =>
          require_explicit_zero = bool(get(cache, ExplicitZeroPath, PyBool(TRUE)))]_vars

====
